---------------------------- MODULE Spec2Model ----------------------------
(***************************************************************************)
(* wg-disco: the signaling protocol and the endpoint-reconciliation loop.  *)
(*                                                                         *)
(* Text is a sequence of one-character strings, binary data a sequence of  *)
(* bytes (0..255).  Option<T> is a sequence of length 0 (None) or 1        *)
(* (Some), Result<T, E> a record with the field ok.                        *)
(***************************************************************************)
EXTENDS Integers, Sequences, FiniteSets, TLC

None == << >>

Some(x) == <<x>>

Ok(v) == [ok |-> TRUE, val |-> v]

Err(e) == [ok |-> FALSE, err |-> e]

(***************************************************************************)
(* Text helpers (str::trim, str::starts_with, slicing).                    *)
(***************************************************************************)
IsWhitespace(c) == c \in {" ", "\t", "\n", "\r"}

Drop(s, n) == SubSeq(s, n + 1, Len(s))

Take(s, n) == SubSeq(s, 1, n)

StartsWith(s, p) == Len(s) >= Len(p) /\ Take(s, Len(p)) = p

\* Number of leading whitespace characters of s.
LeadingWs(s) ==
    IF \A i \in 1..Len(s) : IsWhitespace(s[i]) THEN Len(s)
    ELSE (CHOOSE i \in 1..Len(s) :
            /\ ~IsWhitespace(s[i])
            /\ \A j \in 1..(i - 1) : IsWhitespace(s[j])) - 1

TrailingWs(s) ==
    IF \A i \in 1..Len(s) : IsWhitespace(s[i]) THEN Len(s)
    ELSE Len(s) - (CHOOSE i \in 1..Len(s) :
            /\ ~IsWhitespace(s[i])
            /\ \A j \in (i + 1)..Len(s) : IsWhitespace(s[j]))

TrimStart(s) == Drop(s, LeadingWs(s))

Trim(s) ==
    IF LeadingWs(s) = Len(s) THEN << >>
    ELSE SubSeq(s, LeadingWs(s) + 1, Len(s) - TrailingWs(s))

\* Position (0-based, as Iterator::position) of the first c in s, or None.
Position(s, c) ==
    IF \E i \in 1..Len(s) : s[i] = c
    THEN Some((CHOOSE i \in 1..Len(s) :
                 s[i] = c /\ \A j \in 1..(i - 1) : s[j] # c) - 1)
    ELSE None

\* s with every character of the set cs removed (str::replace(cs, "")).
RECURSIVE RemoveChars(_, _)
RemoveChars(s, cs) ==
    IF s = << >> THEN << >>
    ELSE IF s[1] \in cs THEN RemoveChars(Tail(s), cs)
    ELSE <<s[1]>> \o RemoveChars(Tail(s), cs)

(***************************************************************************)
(* base64 (the base64 crate's padded general-purpose engines).             *)
(***************************************************************************)
STANDARD_ALPHABET ==
    <<"A", "B", "C", "D", "E", "F", "G", "H", "I", "J", "K", "L", "M", "N", "O",
      "P", "Q", "R", "S", "T", "U", "V", "W", "X", "Y", "Z", "a", "b", "c", "d",
      "e", "f", "g", "h", "i", "j", "k", "l", "m", "n", "o", "p", "q", "r", "s",
      "t", "u", "v", "w", "x", "y", "z", "0", "1", "2", "3", "4", "5", "6", "7",
      "8", "9", "+", "/">>

URL_SAFE_ALPHABET ==
    <<"A", "B", "C", "D", "E", "F", "G", "H", "I", "J", "K", "L", "M", "N", "O",
      "P", "Q", "R", "S", "T", "U", "V", "W", "X", "Y", "Z", "a", "b", "c", "d",
      "e", "f", "g", "h", "i", "j", "k", "l", "m", "n", "o", "p", "q", "r", "s",
      "t", "u", "v", "w", "x", "y", "z", "0", "1", "2", "3", "4", "5", "6", "7",
      "8", "9", "-", "_">>

ByteAt(bytes, i) == IF i <= Len(bytes) THEN bytes[i] ELSE 0

\* The i-th (0-based) 6-bit group of bytes.
Sextet(bytes, i) ==
    LET g == i \div 4
        p == i % 4
        b1 == ByteAt(bytes, 3 * g + 1)
        b2 == ByteAt(bytes, 3 * g + 2)
        b3 == ByteAt(bytes, 3 * g + 3)
    IN CASE p = 0 -> b1 \div 4
         [] p = 1 -> (b1 % 4) * 16 + (b2 \div 16)
         [] p = 2 -> (b2 % 16) * 4 + (b3 \div 64)
         [] OTHER -> b3 % 64

\* Engine::encode with padding: 4 characters per 3 bytes, '=' where no
\* input byte contributes.
Base64Encode(alphabet, bytes) ==
    LET n == Len(bytes)
        groups == (n + 2) \div 3
    IN [i \in 1..(4 * groups) |->
          LET g == (i - 1) \div 4
              p == (i - 1) % 4
          IN IF (p = 2 /\ 3 * g + 2 > n) \/ (p = 3 /\ 3 * g + 3 > n)
             THEN "="
             ELSE alphabet[Sextet(bytes, i - 1) + 1]]

SymbolValue(alphabet, c) == (CHOOSE i \in 1..64 : alphabet[i] = c) - 1

IsSymbol(alphabet, c) == \E i \in 1..64 : alphabet[i] = c

\* Number of trailing '=' characters.
PadCount(s) ==
    IF Len(s) >= 2 /\ s[Len(s)] = "=" /\ s[Len(s) - 1] = "=" THEN 2
    ELSE IF Len(s) >= 1 /\ s[Len(s)] = "=" THEN 1
    ELSE 0

\* Engine::decode with canonical padding required and no trailing bits
\* allowed: Ok(bytes) or Err.
Base64Decode(alphabet, s) ==
    LET len == Len(s)
        pad == PadCount(s)
        val(i) == IF i > len - pad THEN 0 ELSE SymbolValue(alphabet, s[i])
        n == 3 * (len \div 4) - pad
    IN IF \E i \in 1..(len - pad) : ~IsSymbol(alphabet, s[i])
       THEN Err("InvalidByte")
       ELSE IF len % 4 = 1 \/ (len % 4 # 0 /\ pad > 0) THEN Err("InvalidLength")
       ELSE IF len % 4 # 0 THEN Err("InvalidPadding")
       ELSE IF pad = 2 /\ val(len - 2) % 16 # 0 THEN Err("InvalidLastSymbol")
       ELSE IF pad = 1 /\ val(len - 1) % 4 # 0 THEN Err("InvalidLastSymbol")
       ELSE Ok([j \in 1..n |->
                  LET g == (j - 1) \div 3
                      q == (j - 1) % 3
                  IN CASE q = 0 -> val(4 * g + 1) * 4 + (val(4 * g + 2) \div 16)
                       [] q = 1 -> (val(4 * g + 2) % 16) * 16 + (val(4 * g + 3) \div 4)
                       [] OTHER -> (val(4 * g + 3) % 4) * 64 + val(4 * g + 4)])

(***************************************************************************)
(* Data model: Key, SocketAddr, Cidr, Endpoint, PeerUpdate.                *)
(***************************************************************************)
KEY_LENGTH == 32

\* Sample keys (Key([u8; 32])).
Key_A ==
    <<111, 125, 138, 150, 161, 171, 180, 188, 202, 215, 227, 238, 248, 1, 9, 23,
      36, 48, 59, 69, 78, 86, 100, 113, 125, 136, 146, 155, 163, 177, 190, 202>>

Key_B ==
    <<37, 49, 63, 72, 83, 96, 104, 114, 126, 140, 149, 160, 173, 181, 191, 203,
      217, 226, 237, 250, 2, 12, 24, 38, 47, 58, 71, 79, 89, 101, 115, 124>>

Key_C ==
    <<185, 201, 213, 221, 232, 246, 0, 6, 22, 34, 42, 53, 67, 77, 83, 99, 111,
      119, 130, 144, 154, 160, 176, 188, 196, 207, 221, 231, 237, 253, 9, 17>>

Keys == {Key_A, Key_B, Key_C}

\* Key::default(): the all-zero key.
KeyDefault == [i \in 1..KEY_LENGTH |-> 0]

SocketAddrV4(ip, port) == [v |-> 4, ip |-> ip, port |-> port]

Ep_1 == SocketAddrV4(<<127, 0, 0, 1>>, 51039)

Ep_2 == SocketAddrV4(<<203, 0, 113, 7>>, 40000)

Ep_3 == SocketAddrV4(<<198, 51, 100, 9>>, 200)

\* impl From<SocketAddr> for Endpoint
EndpointFromSocketAddr(addr) == [kind |-> "Ip", addr |-> addr]

\* impl From<String> for Endpoint
EndpointFromString(dom) == [kind |-> "Domain", dom |-> dom]

PeerUpdate(key, endpoint, routes) ==
    [key |-> key, endpoint |-> endpoint, advertise_routes |-> routes]

(***************************************************************************)
(* The wire layout: bincode's standard configuration, big endian, variable *)
(* length integers.                                                        *)
(***************************************************************************)
RECURSIVE BigEndian(_)
BigEndian(bytes) ==
    IF bytes = << >> THEN 0
    ELSE BigEndian(Take(bytes, Len(bytes) - 1)) * 256 + bytes[Len(bytes)]

\* An unsigned integer below 2^16: one byte below 251, else the marker 251
\* and two bytes.
EncodeVarint(x) ==
    IF x < 251 THEN <<x>> ELSE <<251, x \div 256, x % 256>>

\* Reads an unsigned integer of at most width bytes (2, 4 or 8) and leaves
\* the rest of the input.
DecodeVarint(bytes, width) ==
    IF bytes = << >> THEN Err("UnexpectedEnd")
    ELSE LET b == bytes[1]
             n == CASE b = 251 -> 2 [] b = 252 -> 4 [] b = 253 -> 8 [] OTHER -> 0
         IN IF b < 251 THEN [ok |-> TRUE, val |-> b, rest |-> Tail(bytes)]
            ELSE IF n = 0 \/ n > width THEN Err("InvalidIntegerType")
            ELSE IF Len(bytes) < 1 + n THEN Err("UnexpectedEnd")
            ELSE [ok |-> TRUE, val |-> BigEndian(SubSeq(bytes, 2, 1 + n)),
                  rest |-> Drop(bytes, 1 + n)]

\* IpAddr: the variant index (0: V4, 1: V6), then the octets.
EncodeIpAddr(ip) == EncodeVarint(IF Len(ip) = 4 THEN 0 ELSE 1) \o ip

\* The n octets that follow the variant index read as tag.
DecodeOctets(tag, n) ==
    IF Len(tag.rest) < n THEN Err("UnexpectedEnd")
    ELSE [ok |-> TRUE, val |-> Take(tag.rest, n), rest |-> Drop(tag.rest, n)]

DecodeIpVariant(tag) ==
    IF ~tag.ok THEN tag
    ELSE IF tag.val \notin {0, 1} THEN Err("UnexpectedVariant")
    ELSE DecodeOctets(tag, IF tag.val = 0 THEN 4 ELSE 16)

DecodeIpAddr(bytes) == DecodeIpVariant(DecodeVarint(bytes, 4))

\* SocketAddr: the variant index, the address octets, the port.  A V6
\* address travels without its flow information and scope id.
EncodeSocketAddr(a) ==
    EncodeVarint(IF a.v = 4 THEN 0 ELSE 1) \o a.ip \o EncodeVarint(a.port)

DecodePort(ip, port) ==
    IF ~port.ok THEN port
    ELSE [ok |-> TRUE,
          val |-> IF Len(ip.val) = 4
                  THEN SocketAddrV4(ip.val, port.val)
                  ELSE [v |-> 6, ip |-> ip.val, port |-> port.val,
                        flowinfo |-> 0, scope_id |-> 0],
          rest |-> port.rest]

DecodeAfterIp(ip) ==
    IF ~ip.ok THEN ip ELSE DecodePort(ip, DecodeVarint(ip.rest, 2))

DecodeSocketAddr(bytes) == DecodeAfterIp(DecodeIpAddr(bytes))

\* Cidr { ip: IpAddr, mask: u8 }
EncodeCidr(c) == EncodeIpAddr(c.ip) \o <<c.mask>>

DecodeMask(ip) ==
    IF ~ip.ok THEN ip
    ELSE IF ip.rest = << >> THEN Err("UnexpectedEnd")
    ELSE [ok |-> TRUE, val |-> [ip |-> ip.val, mask |-> ip.rest[1]],
          rest |-> Tail(ip.rest)]

DecodeCidr(bytes) == DecodeMask(DecodeIpAddr(bytes))

RECURSIVE EncodeCidrs(_)
EncodeCidrs(cs) ==
    IF cs = << >> THEN << >> ELSE EncodeCidr(cs[1]) \o EncodeCidrs(Tail(cs))

\* The n routes that follow, after the ones already read (acc).
RECURSIVE DecodeCidrs(_, _, _)
DecodeNextCidr(c, n, acc) ==
    IF ~c.ok THEN c ELSE DecodeCidrs(c.rest, n - 1, Append(acc, c.val))

DecodeCidrs(bytes, n, acc) ==
    IF n = 0 THEN [ok |-> TRUE, val |-> acc, rest |-> bytes]
    ELSE DecodeNextCidr(DecodeCidr(bytes), n, acc)

\* bincode::encode_to_vec(&peer, ..): the key's 32 bytes, the endpoint, the
\* route count and the routes.
encode_to_vec(peer) ==
    peer.key \o EncodeSocketAddr(peer.endpoint)
             \o EncodeVarint(Len(peer.advertise_routes))
             \o EncodeCidrs(peer.advertise_routes)

\* bincode::decode_from_slice(&msg, ..): Ok(update) or Err; bytes after the
\* value are left unread.
DecodeRoutes(k, addr, routes) ==
    IF ~routes.ok THEN Err(routes.err)
    ELSE Ok(PeerUpdate(k, addr.val, routes.val))

DecodeRouteCount(k, addr, cnt) ==
    IF ~cnt.ok THEN Err(cnt.err)
    ELSE DecodeRoutes(k, addr, DecodeCidrs(cnt.rest, cnt.val, << >>))

DecodeEndpoint(k, addr) ==
    IF ~addr.ok THEN Err(addr.err)
    ELSE DecodeRouteCount(k, addr, DecodeVarint(addr.rest, 8))

decode_from_slice(bytes) ==
    IF Len(bytes) < KEY_LENGTH THEN Err("UnexpectedEnd")
    ELSE DecodeEndpoint(Take(bytes, KEY_LENGTH),
                        DecodeSocketAddr(Drop(bytes, KEY_LENGTH)))

(***************************************************************************)
(* IrcSignaling: identity derivation and message encoding.                 *)
(***************************************************************************)
NICKNAME_LENGTH == 12

USERNAME_LENGTH == 44

\* sha256::hash over the sample keys.
sha256_hash(key) ==
    CASE key = Key_A ->
           <<56, 153, 54, 193, 56, 180, 199, 147, 181, 160, 6, 91, 225, 227, 64,
             164, 102, 212, 189, 72, 113, 123, 189, 179, 123, 6, 90, 219, 216,
             159, 215, 135>>
      [] key = Key_B ->
           <<129, 106, 212, 250, 123, 189, 199, 54, 35, 149, 9, 7, 23, 173, 196,
             120, 170, 60, 58, 146, 142, 74, 68, 239, 179, 18, 163, 202, 38, 95,
             117, 51>>
      [] key = Key_C ->
           <<70, 234, 205, 118, 106, 35, 68, 24, 173, 18, 112, 26, 109, 3, 103,
             84, 200, 57, 46, 18, 54, 217, 207, 80, 4, 190, 181, 173, 168, 29,
             94, 216>>
      [] key = KeyDefault ->
           <<102, 104, 122, 173, 248, 98, 189, 119, 108, 143, 193, 139, 142, 159,
             142, 32, 8, 151, 20, 133, 110, 226, 51, 179, 144, 42, 89, 29, 13,
             95, 41, 37>>

\* IrcSignaling::username: the URL-safe base64 text of the key's hash.
username(key) == Base64Encode(URL_SAFE_ALPHABET, sha256_hash(key))

\* impl From<[u8; 44]> for Nickname: the first NICKNAME_LENGTH characters.
NicknameFrom(name) == Take(name, NICKNAME_LENGTH)

\* Variant: the user name is cut to NICKNAME_LENGTH first and '-' and '_'
\* are removed from the cut.
OwnNickname_CutFirst(pub_key) ==
    RemoveChars(Take(username(pub_key), NICKNAME_LENGTH), {"-", "_"})

\* The nickname connect() takes for this node: the username without '-'
\* and '_', cut to NICKNAME_LENGTH.
OwnNickname(pub_key) ==
    Take(RemoveChars(username(pub_key), {"-", "_"}), NICKNAME_LENGTH)

\* IrcSignaling::encode_msg
encode_msg(peer) == Base64Encode(URL_SAFE_ALPHABET, encode_to_vec(peer))

\* IrcSignaling::decode_msg: both steps must succeed.
DecodeBinary(upd) == IF ~upd.ok THEN Err("DecodeError") ELSE upd

DecodeText(bytes) ==
    IF ~bytes.ok THEN Err("Base64DecodeError")
    ELSE DecodeBinary(decode_from_slice(bytes.val))

decode_msg(msg) == DecodeText(Base64Decode(URL_SAFE_ALPHABET, msg))

(***************************************************************************)
(* Config parser: typed values.                                            *)
(***************************************************************************)
\* The characters of a string literal.
Chars(str) == [i \in 1..Len(str) |-> SubSeq(str, i, i)]

Digits == Chars("0123456789")

IsDigit(c) == \E i \in 1..10 : Digits[i] = c

DigitValue(c) == (CHOOSE i \in 1..10 : Digits[i] = c) - 1

RECURSIVE DecimalValue(_)
DecimalValue(ds) ==
    IF ds = << >> THEN 0
    ELSE DecimalValue(Take(ds, Len(ds) - 1)) * 10 + DigitValue(ds[Len(ds)])

RECURSIVE StripZeros(_)
StripZeros(ds) ==
    IF Len(ds) > 1 /\ ds[1] = "0" THEN StripZeros(Tail(ds)) ELSE ds

\* ds <= max for two digit strings without leading zeros.
RECURSIVE DigitsLeq(_, _)
DigitsLeq(ds, max) ==
    IF Len(ds) # Len(max) THEN Len(ds) < Len(max)
    ELSE IF ds = << >> THEN TRUE
    ELSE IF ds[1] # max[1] THEN DigitValue(ds[1]) < DigitValue(max[1])
    ELSE DigitsLeq(Tail(ds), Tail(max))

\* <unsigned>::from_str: an optional '+', then at least one digit, the
\* value at most max (a digit string).
ParseUInt(s, max) ==
    LET ds == IF s # << >> /\ s[1] = "+" THEN Tail(s) ELSE s
    IN IF ds = << >> THEN Err("ParseIntError")
       ELSE IF \E i \in 1..Len(ds) : ~IsDigit(ds[i]) THEN Err("ParseIntError")
       ELSE IF ~DigitsLeq(StripZeros(ds), max) THEN Err("ParseIntError")
       ELSE Ok(DecimalValue(StripZeros(ds)))

ParseU16(s) == ParseUInt(s, Chars("65535"))

ParseU32(s) == ParseUInt(s, Chars("4294967295"))

\* str::split(c): the parts between the separators, at least one.
RECURSIVE Split(_, _)
Split(s, c) ==
    LET at == Position(s, c)
    IN IF at = None THEN <<s>>
       ELSE <<Take(s, at[1])>> \o Split(Drop(s, at[1] + 1), c)

\* Ipv4Addr::from_str: four decimal octets, no leading zero, at most 255.
ParseIpv4(s) ==
    LET parts == Split(s, ".")
        okPart(t) == /\ Len(t) \in 1..3
                     /\ \A i \in 1..Len(t) : IsDigit(t[i])
                     /\ (Len(t) > 1 => t[1] # "0")
                     /\ DecimalValue(t) <= 255
    IN IF Len(parts) = 4 /\ \A i \in 1..4 : okPart(parts[i])
       THEN Ok([i \in 1..4 |-> DecimalValue(parts[i])])
       ELSE Err("AddrParseError")

\* IpAddr::from_str.  The texts of this model hold IPv4 literals only.
ParseIpAddr(s) == ParseIpv4(s)

\* SocketAddr::from_str, IPv4 form: address, ':', port.
ParsePort(ip, ds) ==
    IF ~ip.ok THEN ip
    ELSE IF ds = << >> \/ (\E i \in 1..Len(ds) : ~IsDigit(ds[i]))
            \/ ~DigitsLeq(StripZeros(ds), Chars("65535"))
    THEN Err("AddrParseError")
    ELSE Ok(SocketAddrV4(ip.val, DecimalValue(StripZeros(ds))))

ParseSocketAddrAt(s, at) ==
    IF at = None THEN Err("AddrParseError")
    ELSE ParsePort(ParseIpv4(Take(s, at[1])), Drop(s, at[1] + 1))

ParseSocketAddr(s) == ParseSocketAddrAt(s, Position(s, ":"))

\* Key::from_str: standard base64 into a zeroed 32 byte buffer; the number
\* of bytes written is not looked at.
KeyFromBytes(bytes) ==
    IF ~bytes.ok THEN Err("KeyParseError")
    ELSE IF Len(bytes.val) > KEY_LENGTH THEN Err("KeyParseError")
    ELSE Ok([i \in 1..KEY_LENGTH |-> ByteAt(bytes.val, i)])

ParseKey(s) == KeyFromBytes(Base64Decode(STANDARD_ALPHABET, s))

\* Cidr::from_str: the mask is parsed as a u32 (32 when absent) and cut to
\* its low byte.
CidrFrom(m, a) ==
    IF ~m.ok THEN m
    ELSE IF ~a.ok THEN a
    ELSE Ok([ip |-> a.val, mask |-> m.val % 256])

CidrParts(ip, mask) ==
    CidrFrom(IF mask # << >> THEN ParseU32(mask) ELSE Ok(32), ParseIpAddr(ip))

ParseCidrAt(s, at) ==
    CidrParts(Trim(IF at = None THEN s ELSE Take(s, at[1])),
              Trim(IF at = None THEN << >> ELSE Drop(s, at[1] + 1)))

ParseCidr(s) == ParseCidrAt(s, Position(s, "/"))

\* Endpoint::from_str: a socket address, else a domain.
EndpointFrom(s, a) ==
    Ok(IF a.ok THEN EndpointFromSocketAddr(a.val) ELSE EndpointFromString(s))

ParseEndpoint(s) == EndpointFrom(s, ParseSocketAddr(s))

\* WgPropKind::from_str
ParseWgPropKind(s) ==
    LET known == {"PublicKey", "PresharedKey", "Endpoint", "AllowedIPs",
                  "PersistentKeepalive", "PrivateKey", "ListenPort", "PostUp",
                  "PostDown", "PreUp", "PreDown", "DNS", "MTU", "Address",
                  "Table"}
    IN Ok(IF s = Chars("Fwmark") THEN "FWMark"
          ELSE IF \E k \in known : s = Chars(k)
          THEN CHOOSE k \in known : s = Chars(k)
          ELSE "Unknown")

\* FromStr for the type named ty.
RECURSIVE ParseAs(_, _)
\* List<I>::from_str: the parts between commas, each parsed; the first
\* error wins.
ListFrom(res) ==
    IF \E i \in 1..Len(res) : ~res[i].ok
    THEN res[CHOOSE i \in 1..Len(res) :
               ~res[i].ok /\ \A j \in 1..(i - 1) : res[j].ok]
    ELSE Ok([i \in 1..Len(res) |-> res[i].val])

ParseParts(ty, parts) == ListFrom([i \in 1..Len(parts) |-> ParseAs(ty, parts[i])])

ParseList(ty, s) == ParseParts(ty, Split(s, ","))

ParseAs(ty, s) ==
    CASE ty = "WgPropKind" -> ParseWgPropKind(s)
      [] ty = "Key" -> ParseKey(s)
      [] ty = "Cidr" -> ParseCidr(s)
      [] ty = "u16" -> ParseU16(s)
      [] ty = "u32" -> ParseU32(s)
      [] ty = "IpAddr" -> ParseIpAddr(s)
      [] ty = "Endpoint" -> ParseEndpoint(s)
      [] ty = "List<IpAddr>" -> ParseList("IpAddr", s)
      [] ty = "List<Cidr>" -> ParseList("Cidr", s)
      [] ty = "Str" -> Ok(s)
      [] ty = "Stub" -> Ok("Stub")

\* The number of characters before the first p (all of them without a p).
CountBefore(input, p) ==
    IF \E i \in 1..Len(input) : input[i] = p
    THEN Position(input, p)[1]
    ELSE Len(input)

UntilResult(r, after) ==
    IF ~r.ok THEN r
    ELSE [ok |-> TRUE, val |-> r.val,
          rest |-> IF after # << >> THEN Tail(after) ELSE after]

UntilAt(ty, input, cnt) ==
    UntilResult(ParseAs(ty, Trim(Take(input, cnt))), Drop(input, cnt))

\* Variant: a line that begins with '=' is left in the input when the rest
\* of a line is asked for.
until_StayOnSeparator(ty, p, input) ==
    IF p = "\n" /\ input # << >> /\ input[1] = "="
    THEN [ok |-> TRUE, val |-> ParseAs(ty, << >>).val, rest |-> input]
    ELSE UntilAt(ty, input, CountBefore(input, p))

\* until::<M>(p, input): parses the trimmed text before the first p and
\* steps over it and the p.  Ok: [ok, val, rest]; Err leaves the input.
until(ty, p, input) == UntilAt(ty, input, CountBefore(input, p))

(***************************************************************************)
(* Config parser: sections.                                                *)
(***************************************************************************)
CidrDefault == [ip |-> <<0, 0, 0, 0>>, mask |-> 0]

WgConfigInterfaceDefault ==
    [private_key |-> KeyDefault, address |-> CidrDefault, listen_port |-> None,
     mtu |-> None, dns |-> None, table |-> None, fwmark |-> None,
     advertise_routes |-> None, pre_up |-> None, pre_down |-> None,
     post_up |-> None, post_down |-> None, save_config |-> None]

WgConfigPeerDefault ==
    [public_key |-> KeyDefault, preshared_key |-> None, endpoint |-> None,
     allowed_ips |-> None, persistent_keepalive |-> None]

\* The type an interface property's value is parsed as.
InterfaceValueType(kind) ==
    CASE kind \in {"PrivateKey"} -> "Key"
      [] kind = "Address" -> "Cidr"
      [] kind \in {"ListenPort", "FWMark", "MTU"} -> "u16"
      [] kind = "DNS" -> "List<IpAddr>"
      [] kind = "Table" -> "u32"
      [] kind \in {"PostUp", "PostDown", "PreUp", "PreDown"} -> "Str"
      [] OTHER -> "Stub"

\* The interface with the parsed value v of property kind stored.
InterfaceStore(iface, kind, v) ==
    CASE kind = "PrivateKey" -> [iface EXCEPT !.private_key = v]
      [] kind = "Address" -> [iface EXCEPT !.address = v]
      [] kind = "ListenPort" -> [iface EXCEPT !.listen_port = Some(v)]
      [] kind = "FWMark" -> [iface EXCEPT !.listen_port = Some(v)]
      [] kind = "MTU" -> [iface EXCEPT !.mtu = Some(v)]
      [] kind = "DNS" -> [iface EXCEPT !.dns = Some(v)]
      [] kind = "Table" -> [iface EXCEPT !.table = Some(v)]
      [] kind = "PostUp" -> [iface EXCEPT !.post_up = Some(v)]
      [] kind = "PostDown" -> [iface EXCEPT !.post_down = Some(v)]
      [] kind = "PreUp" -> [iface EXCEPT !.pre_up = Some(v)]
      [] kind = "PreDown" -> [iface EXCEPT !.pre_down = Some(v)]
      [] OTHER -> iface

PeerValueType(kind) ==
    CASE kind \in {"PublicKey", "PresharedKey"} -> "Key"
      [] kind = "Endpoint" -> "Endpoint"
      [] kind = "AllowedIPs" -> "List<Cidr>"
      [] kind = "PersistentKeepalive" -> "u32"
      [] OTHER -> "Stub"

PeerStore(peer, kind, v) ==
    CASE kind = "PublicKey" -> [peer EXCEPT !.public_key = v]
      [] kind = "PresharedKey" -> [peer EXCEPT !.preshared_key = Some(v)]
      [] kind = "Endpoint" -> [peer EXCEPT !.endpoint = Some(v)]
      [] kind = "AllowedIPs" -> [peer EXCEPT !.allowed_ips = Some(v)]
      [] kind = "PersistentKeepalive" ->
           [peer EXCEPT !.persistent_keepalive = Some(v)]
      [] OTHER -> peer

\* The loop both section parsers run: a property name up to '=', its value
\* up to the end of the line, until the input ends or "[Peer]" is next.
\* sect is "Interface" or "Peer".
RECURSIVE SectionBody(_, _, _)
SectionStore(sect, acc, kind, v) ==
    IF ~v.ok THEN Err(v.err)
    ELSE SectionBody(sect, v.rest,
                     IF sect = "Interface" THEN InterfaceStore(acc, kind, v.val)
                     ELSE PeerStore(acc, kind, v.val))

SectionValue(sect, acc, kind) ==
    SectionStore(sect, acc, kind.val,
                 until(IF sect = "Interface" THEN InterfaceValueType(kind.val)
                       ELSE PeerValueType(kind.val), "\n", kind.rest))

SectionBody(sect, input, acc) ==
    IF input = << >> \/ StartsWith(TrimStart(input), Chars("[Peer]"))
    THEN [ok |-> TRUE, val |-> acc, rest |-> input]
    ELSE SectionValue(sect, acc, until("WgPropKind", "=", input))

\* WgConfigInterface::parse
WgConfigInterface_parse(input) ==
    IF ~StartsWith(input, Chars("[Interface]")) THEN Err("UnexpectedToken")
    ELSE SectionBody("Interface", until("Stub", "\n", input).rest,
                     WgConfigInterfaceDefault)

\* WgConfigPeer::parse
WgConfigPeer_parse(input) ==
    IF ~StartsWith(TrimStart(input), Chars("[Peer]")) THEN Err("UnexpectedToken")
    ELSE SectionBody("Peer", until("Stub", "\n", input).rest,
                     WgConfigPeerDefault)

RECURSIVE ParseSections(_, _, _)
AfterInterface(r, peers) ==
    IF ~r.ok THEN Err(r.err) ELSE ParseSections(r.rest, Some(r.val), peers)

\* Variant: a parsed peer is put in front of the ones before it.
AfterPeer_Prepend(r, interface, peers) ==
    IF ~r.ok THEN Err(r.err)
    ELSE ParseSections(r.rest, interface, <<r.val>> \o peers)

AfterPeer(r, interface, peers) ==
    IF ~r.ok THEN Err(r.err)
    ELSE ParseSections(r.rest, interface, Append(peers, r.val))

\* Variant: a file without an interface section gets the default interface
\* (interface.unwrap_or_default()).
ParseSections_Default(input, interface, peers) ==
    IF input = << >>
    THEN IF interface = None
         THEN Ok([interface |-> WgConfigInterfaceDefault, peers |-> peers])
         ELSE Ok([interface |-> interface[1], peers |-> peers])
    ELSE IF StartsWith(input, Chars("[Interface]"))
    THEN AfterInterface(WgConfigInterface_parse(input), peers)
    ELSE IF StartsWith(input, Chars("[Peer]"))
    THEN AfterPeer(WgConfigPeer_parse(input), interface, peers)
    ELSE ParseSections(until("Stub", "\n", input).rest, interface, peers)

ParseSections(input, interface, peers) ==
    IF input = << >>
    THEN IF interface = None THEN Err("NoIntrerfaceSection")
         ELSE Ok([interface |-> interface[1], peers |-> peers])
    ELSE IF StartsWith(input, Chars("[Interface]"))
    THEN AfterInterface(WgConfigInterface_parse(input), peers)
    ELSE IF StartsWith(input, Chars("[Peer]"))
    THEN AfterPeer(WgConfigPeer_parse(input), interface, peers)
    ELSE ParseSections(until("Stub", "\n", input).rest, interface, peers)

\* WgConfig::parse_config
parse_config(input) == ParseSections(input, None, << >>)

(***************************************************************************)
(* The control collaborator (wg/cmd.rs): the wg tool and its interface.    *)
(***************************************************************************)
RECURSIVE ToDecimal(_)
ToDecimal(n) ==
    IF n < 10 THEN <<Digits[n + 1]>>
    ELSE ToDecimal(n \div 10) \o <<Digits[(n % 10) + 1]>>

\* impl Display for Key: standard base64.
KeyToString(key) == Base64Encode(STANDARD_ALPHABET, key)

\* impl Display for SocketAddr (V4): a.b.c.d:port
SocketAddrToString(a) ==
    ToDecimal(a.ip[1]) \o <<".">> \o ToDecimal(a.ip[2]) \o <<".">>
        \o ToDecimal(a.ip[3]) \o <<".">> \o ToDecimal(a.ip[4]) \o <<":">>
        \o ToDecimal(a.port)

\* impl Display for Endpoint
EndpointToString(e) ==
    IF e.kind = "Domain" THEN e.dom ELSE SocketAddrToString(e.addr)

\* The interface as the wg tool holds it: its listen port and the endpoint
\* of each peer.
WgInitial == [listen_port |-> None, endpoints |-> [k \in {} |-> None]]

\* wg set <iface> listen-port <port>
WgSetListenPort(w, portText) ==
    [w EXCEPT !.listen_port = Some(ParseU16(portText).val)]

\* Variant: a peer that is there keeps the endpoint it has.
WgUpsert_AddOnly(w, k, endpoint) ==
    [w EXCEPT !.endpoints =
       [k2 \in (DOMAIN w.endpoints) \cup {k} |->
          IF k2 \in DOMAIN w.endpoints THEN w.endpoints[k2] ELSE Some(endpoint)]]

\* wg set <iface> peer <key> endpoint <endpoint>: the peer is added when it
\* is not there, and its endpoint replaced.
WgUpsert(w, k, endpoint) ==
    [w EXCEPT !.endpoints =
       [k2 \in (DOMAIN w.endpoints) \cup {k} |->
          IF k2 = k THEN Some(endpoint) ELSE w.endpoints[k2]]]

WgSetPeerEndpoint(w, keyText, endpointText) ==
    WgUpsert(w, ParseKey(keyText).val, ParseEndpoint(endpointText).val)

\* WgCmdBackend::set_listen_port: the interface after the command ran
\* (success) or failed.
set_listen_port(w, port, success) ==
    IF success THEN WgSetListenPort(w, ToDecimal(port)) ELSE w

\* WgCmdBackend::set_peer_endpoint
set_peer_endpoint(w, key, endpoint, success) ==
    IF success
    THEN WgSetPeerEndpoint(w, KeyToString(key), EndpointToString(endpoint))
    ELSE w

(***************************************************************************)
(* IrcSignaling: connect, announce, subscribe.                             *)
(***************************************************************************)
\* The channel main() configures.
Channel == Chars("#wg-disco-aeeab")

\* The registry connect() builds: every peer key under the first
\* NICKNAME_LENGTH characters of its username; a later key replaces an
\* earlier one with the same handle.
Registry(peerKeys) ==
    LET handle(i) == NicknameFrom(username(peerKeys[i]))
    IN [h \in {handle(i) : i \in 1..Len(peerKeys)} |->
          peerKeys[CHOOSE i \in 1..Len(peerKeys) :
                     /\ handle(i) = h
                     /\ \A j \in (i + 1)..Len(peerKeys) : handle(j) # h]]

\* IrcSignaling::connect, the value it returns on success.
connect(channel, pub_key, peerKeys) ==
    [channel |-> channel, nickname |-> OwnNickname(pub_key),
     registry |-> Registry(peerKeys)]

\* Variant: every announce goes to the channel, whoever asked.
AnnounceTarget_Channel(sig, nick) == sig.channel

\* The target announce() sends to: the nick when given, else the channel.
AnnounceTarget(sig, nick) == IF nick = None THEN sig.channel ELSE nick[1]

\* IrcSignaling::announce: the PRIVMSG handed to the client.
announce(sig, peer, nick) ==
    [target |-> AnnounceTarget(sig, nick), msg |-> encode_msg(peer)]

\* Inbound transport items: a message with its optional prefix, or a
\* stream error.
Message(prefix, command, target, msg) ==
    [ok |-> TRUE, prefix |-> prefix, command |-> command, target |-> target,
     msg |-> msg]

StreamError == [ok |-> FALSE, err |-> "IrcError"]

PrefixNickname(nm) == Some([kind |-> "Nickname", name |-> nm])

PrefixServerName(nm) == Some([kind |-> "ServerName", name |-> nm])

Request(nick, peer) == [kind |-> "Request", nick |-> nick, peer |-> peer]

Response(peer) == [kind |-> "Response", peer |-> peer]

ErrorItem(e) == [kind |-> "Error", err |-> e]

\* Variant: the two arms of the target test exchanged.
ClassifyDecoded_Swapped(sig, item, msg) ==
    IF item.target = sig.channel
    THEN IF msg.ok THEN Some(Response(msg.val)) ELSE None
    ELSE IF msg.ok THEN Some(Request(item.prefix[1].name, msg.val)) ELSE None

\* What the stream subscribe() returns yields for one inbound item: None
\* (nothing, the item is filtered out), or Some event or error.
ClassifyDecoded(sig, item, msg) ==
    IF item.target = sig.channel
    THEN IF msg.ok THEN Some(Request(item.prefix[1].name, msg.val)) ELSE None
    ELSE IF msg.ok THEN Some(Response(msg.val)) ELSE None

\* Variant: a body that fails to decode is forwarded as an error item
\* (decode_msg(..)? in place of decode_msg(..).ok()).
Classify_Strict(sig, item) ==
    IF ~item.ok THEN Some(ErrorItem(item.err))
    ELSE IF item.command = "PRIVMSG"
    THEN IF item.prefix # None /\ item.prefix[1].kind = "Nickname"
         THEN IF decode_msg(item.msg).ok
              THEN ClassifyDecoded(sig, item, decode_msg(item.msg))
              ELSE Some(ErrorItem(decode_msg(item.msg).err))
         ELSE None
    ELSE None

\* Variant: an update is delivered only when its key is one of the
\* configured peers of the registry.
Classify_Configured(sig, item) ==
    IF ~item.ok THEN Some(ErrorItem(item.err))
    ELSE IF item.command = "PRIVMSG"
    THEN IF item.prefix # None /\ item.prefix[1].kind = "Nickname"
         THEN IF decode_msg(item.msg).ok
                   /\ \E h \in DOMAIN sig.registry :
                        sig.registry[h] = decode_msg(item.msg).val.key
              THEN ClassifyDecoded(sig, item, decode_msg(item.msg))
              ELSE None
         ELSE None
    ELSE None

Classify(sig, item) ==
    IF ~item.ok THEN Some(ErrorItem(item.err))
    ELSE IF item.command = "PRIVMSG"
    THEN IF item.prefix # None /\ item.prefix[1].kind = "Nickname"
         THEN ClassifyDecoded(sig, item, decode_msg(item.msg))
         ELSE None
    ELSE None

(***************************************************************************)
(* Inputs of a run.                                                        *)
(***************************************************************************)
\* Args.iface
Iface == "wg0"

\* Contents /etc/wireguard/<iface>.conf may have.
Conf_NoPort ==
    Chars("[Interface]\nPrivateKey = ucnV3ej2AAYWIio1Q01TY293gpCaoLC8xM/d5+39CRE=\nAddress = 10.0.0.1/24\n[Peer]\nPublicKey = JTE/SFNgaHJ+jJWgrbW/y9ni7foCDBgmLzpHT1llc3w=\nAllowedIPs = 10.0.0.2\n")

Conf_Port ==
    Chars("[Interface]\nPrivateKey = ucnV3ej2AAYWIio1Q01TY293gpCaoLC8xM/d5+39CRE=\nListenPort = 51822\n\n[Peer] # B\nPublicKey = JTE/SFNgaHJ+jJWgrbW/y9ni7foCDBgmLzpHT1llc3w=\n\n[Peer] # C\nPublicKey = ucnV3ej2AAYWIio1Q01TY293gpCaoLC8xM/d5+39CRE=\nEndpoint = example.com:51821")

Conf_Fwmark ==
    Chars("[Interface]\nPrivateKey = ucnV3ej2AAYWIio1Q01TY293gpCaoLC8xM/d5+39CRE=\nFwmark = 51\n[Peer]\nPublicKey = JTE/SFNgaHJ+jJWgrbW/y9ni7foCDBgmLzpHT1llc3w=\n")

Conf_NoInterface ==
    Chars("[Peer]\nPublicKey = JTE/SFNgaHJ+jJWgrbW/y9ni7foCDBgmLzpHT1llc3w=\n")

ConfigFiles == {Conf_NoPort, Conf_Port, Conf_Fwmark, Conf_NoInterface}

\* fs::read_to_string: the text, or an I/O error.
FileReads == {Ok(t) : t \in ConfigFiles} \cup {Err("IoError")}

\* What `wg show <iface> public-key` may answer: this node's key, or fail.
PubKeyAnswers == {Ok(Key_A), Err("WgCommandFail")}

\* What Discovery may return: (external address, local port), or fail.
DiscoverAnswers == {Ok(<<Ep_1, 51039>>), Ok(<<Ep_2, 51820>>), Err("StunError")}

\* Nicknames of the other nodes on the network.
Nick_B == OwnNickname(Key_B)

Nick_C == OwnNickname(Key_C)

OtherTarget == Chars("#other")

\* Updates other nodes announce.
Updates ==
    {PeerUpdate(Key_B, Ep_2, << >>), PeerUpdate(Key_B, Ep_3, << >>),
     PeerUpdate(Key_C, Ep_2, << >>)}

\* Message bodies: an encoded update, a text that is no base64, and base64
\* of a cut-off update.
NotBase64 == Chars("hello, world")

CutOff == Base64Encode(URL_SAFE_ALPHABET,
                       Take(encode_to_vec(PeerUpdate(Key_B, Ep_2, << >>)), 35))

Bodies == {encode_msg(u) : u \in Updates} \cup {NotBase64, CutOff}

Targets(nickname) == {Channel, nickname, OtherTarget}

\* The items the transport may deliver to a node with the given nickname.
RawItems(nickname) ==
    {Message(PrefixNickname(n), "PRIVMSG", t, b) :
        n \in {Nick_B, Nick_C}, t \in Targets(nickname), b \in Bodies}
    \cup {Message(None, "PRIVMSG", t, encode_msg(PeerUpdate(Key_B, Ep_2, << >>))) :
            t \in Targets(nickname)}
    \cup {Message(PrefixServerName(Chars("irc.libera.chat")), "PRIVMSG", Channel,
                  encode_msg(PeerUpdate(Key_B, Ep_2, << >>))),
          Message(PrefixServerName(Chars("irc.libera.chat")), "PING", << >>, << >>),
          Message(PrefixNickname(Nick_B), "JOIN", Channel, << >>),
          StreamError}

\* Inbound items one run takes from the subscription.
MaxItems == 2

(***************************************************************************)
(* The orchestrator: main().                                               *)
(***************************************************************************)
VARIABLES
    pc,         \* where main() is
    config,     \* Option<WgConfig>
    key,        \* Option<Key>: this node's public key
    signaling,  \* Option<IrcSignaling>
    discovered, \* Option<(SocketAddr, u16)>: endpoint, local_port
    wg,         \* the interface as the wg tool holds it
    res,        \* Option: the item stream.next() returned, being handled
    failed,     \* the step whose error main() returned ("" while none)
    subscribed, \* whether the subscription was opened
    calls,      \* history: the collaborator calls made, in order
    events,     \* history: the items the subscription yielded, in order
    lastRaw,    \* history: the last inbound item taken from the transport
    lastOut,    \* history: what the subscription yielded for it
    mark,       \* history: the number of calls made before it was taken
    wgAtTake,   \* history: the interface when it was taken
    consumed,   \* history: the number of inbound items taken
    dropped,    \* history: the number of them that yielded nothing
    nodes,      \* two nodes on one channel: each node's main(), and the
                \* targets of the messages it sent (history)
    inbox,      \* two nodes on one channel: each node's inbound items
    fn,         \* one call of a function: the function called ("" before)
    arg,        \* one call of a function: its argument
    ret         \* one call of a function: what it returned

\* One node and its histories.
solo == <<pc, config, key, signaling, discovered, wg, res, failed, subscribed,
          calls, events, lastRaw, lastOut, mark, wgAtTake, consumed, dropped>>

\* Two nodes and the transport between them.
pair == <<nodes, inbox>>

\* One call of a function of the program.
call == <<fn, arg, ret>>

vars == <<solo, pair, call>>

boot == <<config, key, signaling, discovered>>

hist == <<events, lastRaw, lastOut, mark, wgAtTake, consumed, dropped>>

CallSetListenPort(port, ok) ==
    [op |-> "set_listen_port", iface |-> Iface, port |-> port, ok |-> ok]

CallSetPeerEndpoint(k, endpoint, ok) ==
    [op |-> "set_peer_endpoint", iface |-> Iface, key |-> k,
     endpoint |-> endpoint, ok |-> ok]

CallSendPrivmsg(m, ok) ==
    [op |-> "send_privmsg", target |-> m.target, msg |-> m.msg, ok |-> ok]

\* The PeerUpdate main() announces: own key, discovered endpoint, no routes.
OwnUpdate == PeerUpdate(key[1], discovered[1][1], << >>)

\* An error leaves main() through `?`; failed records the step it came from.
Abort == pc' = "aborted" /\ failed' = pc

\* load_wg_config: read the file and parse it.
load_wg_config(read) ==
    IF ~read.ok THEN read ELSE parse_config(read.val)

Init ==
    /\ pc = "load_wg_config"
    /\ config = None
    /\ key = None
    /\ signaling = None
    /\ discovered = None
    /\ wg = WgInitial
    /\ res = None
    /\ failed = ""
    /\ subscribed = FALSE
    /\ calls = << >>
    /\ events = << >>
    /\ lastRaw = None
    /\ lastOut = None
    /\ mark = 0
    /\ wgAtTake = WgInitial
    /\ consumed = 0
    /\ dropped = 0
    /\ nodes = << >>
    /\ inbox = << >>
    /\ fn = ""
    /\ arg = None
    /\ ret = None

\* let config = load_wg_config(&args.iface)?;
ConfigLoaded(r) ==
    IF r.ok
    THEN config' = Some(r.val) /\ pc' = "get_pub_key" /\ failed' = failed
    ELSE config' = config /\ Abort

LoadConfig ==
    /\ pc = "load_wg_config"
    /\ \E read \in FileReads : ConfigLoaded(load_wg_config(read))
    /\ UNCHANGED <<key, signaling, discovered, wg, res, subscribed, calls, hist, pair, call>>

\* let key = wg.get_pub_key(&iface)?;
GetPubKey ==
    /\ pc = "get_pub_key"
    /\ \E r \in PubKeyAnswers :
         IF r.ok
         THEN key' = Some(r.val) /\ pc' = "connect" /\ failed' = failed
         ELSE key' = key /\ Abort
    /\ UNCHANGED <<config, signaling, discovered, wg, res, subscribed, calls, hist, pair, call>>

\* IrcSignaling::connect(cfg, key, peers).await?
Connect ==
    /\ pc = "connect"
    /\ \E success \in BOOLEAN :
         IF success
         THEN /\ signaling' =
                   Some(connect(Channel, key[1],
                                [i \in 1..Len(config[1].peers) |->
                                   config[1].peers[i].public_key]))
              /\ pc' = "discover" /\ failed' = failed
         ELSE signaling' = signaling /\ Abort
    /\ UNCHANGED <<config, key, discovered, wg, res, subscribed, calls, hist, pair, call>>

\* let (endpoint, local_port) = discover.discover().await?;
Discover ==
    /\ pc = "discover"
    /\ \E r \in DiscoverAnswers :
         IF r.ok
         THEN discovered' = Some(r.val) /\ pc' = "set_listen_port"
              /\ failed' = failed
         ELSE discovered' = discovered /\ Abort
    /\ UNCHANGED <<config, key, signaling, wg, res, subscribed, calls, hist, pair, call>>

\* Variant: the port of the external address is pushed, not the local port.
PushListenPort_External ==
    /\ pc = "set_listen_port"
    /\ IF config[1].interface.listen_port = None
       THEN \E success \in BOOLEAN :
              /\ wg' = set_listen_port(wg, discovered[1][1].port, success)
              /\ calls' = Append(calls,
                                 CallSetListenPort(discovered[1][1].port, success))
              /\ IF success THEN pc' = "announce" /\ failed' = failed
                 ELSE Abort
       ELSE /\ pc' = "announce"
            /\ UNCHANGED <<wg, calls, failed>>
    /\ UNCHANGED <<boot, res, subscribed, hist, pair, call>>

\* Variant: the result of set_listen_port is ignored.
PushListenPort_Ignore ==
    /\ pc = "set_listen_port"
    /\ IF config[1].interface.listen_port = None
       THEN \E success \in BOOLEAN :
              /\ wg' = set_listen_port(wg, discovered[1][2], success)
              /\ calls' = Append(calls,
                                 CallSetListenPort(discovered[1][2], success))
              /\ pc' = "announce" /\ failed' = failed
       ELSE /\ pc' = "announce"
            /\ UNCHANGED <<wg, calls, failed>>
    /\ UNCHANGED <<boot, res, subscribed, hist, pair, call>>

\* if config.interface.listen_port.is_none() { wg.set_listen_port(..)?; }
PushListenPort ==
    /\ pc = "set_listen_port"
    /\ IF config[1].interface.listen_port = None
       THEN \E success \in BOOLEAN :
              /\ wg' = set_listen_port(wg, discovered[1][2], success)
              /\ calls' = Append(calls,
                                 CallSetListenPort(discovered[1][2], success))
              /\ IF success THEN pc' = "announce" /\ failed' = failed
                 ELSE Abort
       ELSE /\ pc' = "announce"
            /\ UNCHANGED <<wg, calls, failed>>
    /\ UNCHANGED <<boot, res, subscribed, hist, pair, call>>

\* signaling.announce(PeerUpdate { key, endpoint, .. }, None).await?
AnnounceSelf ==
    /\ pc = "announce"
    /\ \E success \in BOOLEAN :
         /\ calls' = Append(calls,
                CallSendPrivmsg(announce(signaling[1], OwnUpdate, None), success))
         /\ IF success THEN pc' = "subscribe" /\ failed' = failed
            ELSE Abort
    /\ UNCHANGED <<boot, wg, res, subscribed, hist, pair, call>>

\* let mut stream = pin!(signaling.subscribe().await?);
Subscribe ==
    /\ pc = "subscribe"
    /\ \E success \in BOOLEAN :
         IF success
         THEN pc' = "listening" /\ subscribed' = TRUE /\ failed' = failed
         ELSE Abort /\ subscribed' = subscribed
    /\ UNCHANGED <<boot, wg, res, calls, hist, pair, call>>

\* stream.next().await: the transport delivers one item; what the
\* subscription filters out never reaches the loop.
Yield(item, out) ==
    /\ lastRaw' = Some(item)
    /\ lastOut' = out
    /\ mark' = Len(calls)
    /\ wgAtTake' = wg
    /\ consumed' = consumed + 1
    /\ IF out = None
       THEN /\ dropped' = dropped + 1
            /\ UNCHANGED <<pc, res, events>>
       ELSE /\ res' = out
            /\ events' = Append(events, out[1])
            /\ pc' = "match"
            /\ dropped' = dropped

\* Variant: the reply is handed to a task and the next item read at once.
StreamNext_Eager ==
    /\ pc \in {"listening", "reply"}
    /\ consumed < MaxItems
    /\ \E item \in RawItems(signaling[1].nickname) :
         Yield(item, Classify(signaling[1], item))
    /\ UNCHANGED <<boot, wg, failed, subscribed, calls, pair, call>>

StreamNext ==
    /\ pc = "listening"
    /\ consumed < MaxItems
    /\ \E item \in RawItems(signaling[1].nickname) :
         Yield(item, Classify(signaling[1], item))
    /\ UNCHANGED <<boot, wg, failed, subscribed, calls, pair, call>>

\* Variant: a failed set_peer_endpoint is ignored and the reply still sent.
HandleRequest_Continue ==
    /\ pc = "match"
    /\ res[1].kind = "Request"
    /\ \E success \in BOOLEAN :
         LET endpoint == EndpointFromSocketAddr(res[1].peer.endpoint)
         IN /\ wg' = set_peer_endpoint(wg, res[1].peer.key, endpoint, success)
            /\ calls' = Append(calls,
                   CallSetPeerEndpoint(res[1].peer.key, endpoint, success))
            /\ pc' = "reply" /\ failed' = failed
    /\ UNCHANGED <<boot, res, subscribed, hist, pair, call>>

\* Variant: a Request whose endpoint the interface already holds gets no reply.
HandleRequest_Dedup ==
    /\ pc = "match"
    /\ res[1].kind = "Request"
    /\ \E success \in BOOLEAN :
         LET endpoint == EndpointFromSocketAddr(res[1].peer.endpoint)
         IN /\ wg' = set_peer_endpoint(wg, res[1].peer.key, endpoint, success)
            /\ calls' = Append(calls,
                   CallSetPeerEndpoint(res[1].peer.key, endpoint, success))
            /\ IF success
               THEN /\ pc' = IF wg' = wg THEN "listening" ELSE "reply"
                    /\ failed' = failed
               ELSE Abort
    /\ UNCHANGED <<boot, res, subscribed, hist, pair, call>>

\* Ok(PeerEvent::Request(nick, peer)): wg.set_peer_endpoint(..)?
HandleRequest ==
    /\ pc = "match"
    /\ res[1].kind = "Request"
    /\ \E success \in BOOLEAN :
         LET endpoint == EndpointFromSocketAddr(res[1].peer.endpoint)
         IN /\ wg' = set_peer_endpoint(wg, res[1].peer.key, endpoint, success)
            /\ calls' = Append(calls,
                   CallSetPeerEndpoint(res[1].peer.key, endpoint, success))
            /\ IF success THEN pc' = "reply" /\ failed' = failed
               ELSE Abort
    /\ UNCHANGED <<boot, res, subscribed, hist, pair, call>>

\* Variant: the reply carries the endpoint of the Request it answers.
Reply_Echo ==
    /\ pc = "reply"
    /\ \E success \in BOOLEAN :
         /\ calls' = Append(calls,
                CallSendPrivmsg(announce(signaling[1],
                                         PeerUpdate(key[1], res[1].peer.endpoint, << >>),
                                         Some(res[1].nick)), success))
         /\ IF success THEN pc' = "listening" /\ res' = None /\ failed' = failed
            ELSE Abort /\ res' = res
    /\ UNCHANGED <<boot, wg, subscribed, hist, pair, call>>

\* ... then signaling.announce(PeerUpdate { .. }, Some(&nick)).await?
Reply ==
    /\ pc = "reply"
    /\ \E success \in BOOLEAN :
         /\ calls' = Append(calls,
                CallSendPrivmsg(announce(signaling[1], OwnUpdate,
                                         Some(res[1].nick)), success))
         /\ IF success THEN pc' = "listening" /\ res' = None /\ failed' = failed
            ELSE Abort /\ res' = res
    /\ UNCHANGED <<boot, wg, subscribed, hist, pair, call>>

\* Variant: a Response is answered with a broadcast of the own update.
HandleResponse_Announcing ==
    /\ pc = "match"
    /\ res[1].kind = "Response"
    /\ \E success \in BOOLEAN :
         LET endpoint == EndpointFromSocketAddr(res[1].peer.endpoint)
         IN /\ wg' = set_peer_endpoint(wg, res[1].peer.key, endpoint, success)
            /\ calls' =
                 IF success
                 THEN calls \o <<CallSetPeerEndpoint(res[1].peer.key, endpoint, TRUE),
                                 CallSendPrivmsg(announce(signaling[1], OwnUpdate, None),
                                                 TRUE)>>
                 ELSE Append(calls,
                        CallSetPeerEndpoint(res[1].peer.key, endpoint, FALSE))
            /\ IF success THEN pc' = "listening" /\ res' = None /\ failed' = failed
               ELSE Abort /\ res' = res
    /\ UNCHANGED <<boot, subscribed, hist, pair, call>>

\* Ok(PeerEvent::Response(peer)): wg.set_peer_endpoint(..)?
HandleResponse ==
    /\ pc = "match"
    /\ res[1].kind = "Response"
    /\ \E success \in BOOLEAN :
         LET endpoint == EndpointFromSocketAddr(res[1].peer.endpoint)
         IN /\ wg' = set_peer_endpoint(wg, res[1].peer.key, endpoint, success)
            /\ calls' = Append(calls,
                   CallSetPeerEndpoint(res[1].peer.key, endpoint, success))
            /\ IF success THEN pc' = "listening" /\ res' = None /\ failed' = failed
               ELSE Abort /\ res' = res
    /\ UNCHANGED <<boot, subscribed, hist, pair, call>>

\* Variant: an error item ends main() (Err(err) => return Err(err)).
HandleError_Abort ==
    /\ pc = "match"
    /\ res[1].kind = "Error"
    /\ Abort
    /\ UNCHANGED <<boot, wg, res, subscribed, calls, hist, pair, call>>

\* Err(err) => log::error!(..)
HandleError ==
    /\ pc = "match"
    /\ res[1].kind = "Error"
    /\ pc' = "listening"
    /\ res' = None
    /\ UNCHANGED <<boot, wg, failed, subscribed, calls, hist, pair, call>>

\* The stream ends (the transport disconnected): println!("exit"); Ok(())
StreamEnd ==
    /\ pc = "listening"
    /\ pc' = "exit"
    /\ UNCHANGED <<boot, wg, res, failed, subscribed, calls, hist, pair, call>>

Next ==
    \/ LoadConfig
    \/ GetPubKey
    \/ Connect
    \/ Discover
    \/ PushListenPort
    \/ AnnounceSelf
    \/ Subscribe
    \/ StreamNext
    \/ HandleRequest
    \/ Reply
    \/ HandleResponse
    \/ HandleError
    \/ StreamEnd

Spec == Init /\ [][Next]_vars

(***************************************************************************)
(* Two nodes on one channel.  Each runs main(); no collaborator fails and  *)
(* the transport delivers every message, in order, to the members of the   *)
(* channel (a PRIVMSG to the channel) or to the owner of the nickname (a   *)
(* directed PRIVMSG).  Each node has the other as a configured peer.       *)
(***************************************************************************)
Nodes == {"A", "B"}

Other(n) == IF n = "A" THEN "B" ELSE "A"

\* wg show <iface> public-key of each node.
NodeKey(n) == IF n = "A" THEN Key_A ELSE Key_B

\* config.interface.listen_port of each node.
NodeListenPort(n) == IF n = "A" THEN None ELSE Some(51822)

\* The external addresses Discovery may return to each node.
NodeEndpoints(n) == IF n = "A" THEN {Ep_1, Ep_3} ELSE {Ep_2}

\* The local port Discovery returns.
NodeLocalPort == 51039

\* What IrcSignaling::connect returns to node n.
NodeSignaling(n) == connect(Channel, NodeKey(n), <<NodeKey(Other(n))>>)

Joined(n) == nodes[n].sig # None

NodeNickname(n) == nodes[n].sig[1].nickname

\* The PeerUpdate node n announces.
NodeUpdate(n) == PeerUpdate(nodes[n].key, nodes[n].endpoint, << >>)

\* The transport hands the message m, sent by node n, to the other node when
\* that node has joined and the message is for the channel or for its
\* nickname.
Deliver(n, nick, m) ==
    [r \in Nodes |->
       IF r # n /\ Joined(r)
            /\ (m.target = Channel \/ m.target = NodeNickname(r))
       THEN Append(inbox[r], Message(PrefixNickname(nick), "PRIVMSG",
                                     m.target, m.msg))
       ELSE inbox[r]]

\* The members of the channel are told that a node with this nickname joined.
DeliverJoin(n, nick) ==
    [r \in Nodes |->
       IF r # n /\ Joined(r)
       THEN Append(inbox[r], Message(PrefixNickname(nick), "JOIN", Channel, << >>))
       ELSE inbox[r]]

PairInit ==
    /\ pc = "load_wg_config"
    /\ config = None
    /\ key = None
    /\ signaling = None
    /\ discovered = None
    /\ wg = WgInitial
    /\ res = None
    /\ failed = ""
    /\ subscribed = FALSE
    /\ calls = << >>
    /\ events = << >>
    /\ lastRaw = None
    /\ lastOut = None
    /\ mark = 0
    /\ wgAtTake = WgInitial
    /\ consumed = 0
    /\ dropped = 0
    /\ \E ea \in NodeEndpoints("A"), eb \in NodeEndpoints("B") :
         nodes = [n \in Nodes |->
                    [pc |-> "connect",
                     key |-> NodeKey(n),
                     endpoint |-> IF n = "A" THEN ea ELSE eb,
                     sig |-> None,
                     wg |-> WgInitial,
                     res |-> None,
                     sent |-> << >>]]
    /\ inbox = [n \in Nodes |-> << >>]
    /\ fn = ""
    /\ arg = None
    /\ ret = None

\* IrcSignaling::connect: identify and join the channel.
Joining(n, sig) ==
    /\ nodes' = [nodes EXCEPT ![n].sig = Some(sig), ![n].pc = "set_listen_port"]
    /\ inbox' = DeliverJoin(n, sig.nickname)

PairConnect(n) ==
    /\ nodes[n].pc = "connect"
    /\ Joining(n, NodeSignaling(n))
    /\ UNCHANGED <<solo, call>>

\* if config.interface.listen_port.is_none() { wg.set_listen_port(..)?; }
PairPushListenPort(n) ==
    /\ nodes[n].pc = "set_listen_port"
    /\ nodes' = [nodes EXCEPT
                   ![n].wg = IF NodeListenPort(n) = None
                             THEN set_listen_port(nodes[n].wg, NodeLocalPort, TRUE)
                             ELSE nodes[n].wg,
                   ![n].pc = "announce"]
    /\ UNCHANGED <<solo, call, inbox>>

\* signaling.announce(PeerUpdate { key, endpoint, .. }, None).await?
PairAnnounce(n) ==
    /\ nodes[n].pc = "announce"
    /\ inbox' = Deliver(n, NodeNickname(n),
                        announce(nodes[n].sig[1], NodeUpdate(n), None))
    /\ nodes' = [nodes EXCEPT
                   ![n].pc = "subscribe",
                   ![n].sent = Append(nodes[n].sent,
                                      AnnounceTarget(nodes[n].sig[1], None))]
    /\ UNCHANGED <<solo, call>>

\* let mut stream = pin!(signaling.subscribe().await?);
PairSubscribe(n) ==
    /\ nodes[n].pc = "subscribe"
    /\ nodes' = [nodes EXCEPT ![n].pc = "listening"]
    /\ UNCHANGED <<solo, call, inbox>>

\* stream.next().await
PairYield(n, out) ==
    nodes' = IF out = None THEN nodes
             ELSE [nodes EXCEPT ![n].res = out, ![n].pc = "match"]

PairStreamNext(n) ==
    /\ nodes[n].pc = "listening"
    /\ inbox[n] # << >>
    /\ PairYield(n, Classify(nodes[n].sig[1], Head(inbox[n])))
    /\ inbox' = [inbox EXCEPT ![n] = Tail(inbox[n])]
    /\ UNCHANGED <<solo, call>>

\* Ok(PeerEvent::Request(nick, peer)): wg.set_peer_endpoint(..)?
PairHandleRequest(n) ==
    /\ nodes[n].pc = "match"
    /\ nodes[n].res[1].kind = "Request"
    /\ nodes' = [nodes EXCEPT
                   ![n].wg = set_peer_endpoint(nodes[n].wg, nodes[n].res[1].peer.key,
                                EndpointFromSocketAddr(nodes[n].res[1].peer.endpoint),
                                TRUE),
                   ![n].pc = "reply"]
    /\ UNCHANGED <<solo, call, inbox>>

\* Variant: a Request is applied and not answered.
PairReply_Silent(n) ==
    /\ nodes[n].pc = "reply"
    /\ nodes' = [nodes EXCEPT ![n].pc = "listening", ![n].res = None]
    /\ UNCHANGED <<solo, call, inbox>>

\* ... then signaling.announce(PeerUpdate { .. }, Some(&nick)).await?
PairReply(n) ==
    /\ nodes[n].pc = "reply"
    /\ inbox' = Deliver(n, NodeNickname(n),
                        announce(nodes[n].sig[1], NodeUpdate(n),
                                 Some(nodes[n].res[1].nick)))
    /\ nodes' = [nodes EXCEPT
                   ![n].pc = "listening",
                   ![n].res = None,
                   ![n].sent = Append(nodes[n].sent,
                                      AnnounceTarget(nodes[n].sig[1],
                                                     Some(nodes[n].res[1].nick)))]
    /\ UNCHANGED <<solo, call>>

\* Variant: a Response is answered with a broadcast of the own update.
PairHandleResponse_Answering(n) ==
    /\ nodes[n].pc = "match"
    /\ nodes[n].res[1].kind = "Response"
    /\ inbox' = Deliver(n, NodeNickname(n),
                        announce(nodes[n].sig[1], NodeUpdate(n), None))
    /\ nodes' = [nodes EXCEPT
                   ![n].wg = set_peer_endpoint(nodes[n].wg, nodes[n].res[1].peer.key,
                                EndpointFromSocketAddr(nodes[n].res[1].peer.endpoint),
                                TRUE),
                   ![n].pc = "listening",
                   ![n].res = None,
                   ![n].sent = Append(nodes[n].sent,
                                      AnnounceTarget(nodes[n].sig[1], None))]
    /\ UNCHANGED <<solo, call>>

\* Ok(PeerEvent::Response(peer)): wg.set_peer_endpoint(..)?
PairHandleResponse(n) ==
    /\ nodes[n].pc = "match"
    /\ nodes[n].res[1].kind = "Response"
    /\ nodes' = [nodes EXCEPT
                   ![n].wg = set_peer_endpoint(nodes[n].wg, nodes[n].res[1].peer.key,
                                EndpointFromSocketAddr(nodes[n].res[1].peer.endpoint),
                                TRUE),
                   ![n].pc = "listening",
                   ![n].res = None]
    /\ UNCHANGED <<solo, call, inbox>>

\* One step of node n.
PairStep(n) ==
    \/ PairConnect(n)
    \/ PairPushListenPort(n)
    \/ PairAnnounce(n)
    \/ PairSubscribe(n)
    \/ PairStreamNext(n)
    \/ PairHandleRequest(n)
    \/ PairReply(n)
    \/ PairHandleResponse(n)

PairNext == \E n \in Nodes : PairStep(n)

\* Node n can step: main() is past stream.next(), or an item waits for it.
CanStep(n) == nodes[n].pc # "listening" \/ inbox[n] # << >>

\* Each node keeps running: the runtime polls its main() whenever it can
\* step.  This is WF_vars(PairStep(n)) with CanStep(n) written for
\* ENABLED <<PairStep(n)>>_vars.
Fair(n) == ([]<>(~CanStep(n))) \/ ([]<><<PairStep(n)>>_vars)

PairSpec == PairInit /\ [][PairNext]_vars /\ \A n \in Nodes : Fair(n)

(***************************************************************************)
(* One call of a function of the program, on an input of a bounded set.    *)
(***************************************************************************)
SocketAddrV6(ip, port, flowinfo, scope_id) ==
    [v |-> 6, ip |-> ip, port |-> port, flowinfo |-> flowinfo,
     scope_id |-> scope_id]

\* 2001:db8::1 and fe80::1
Ip6_Global == <<32, 1, 13, 184, 0, 0, 0, 0, 0, 0, 0, 0, 0, 0, 0, 1>>

Ip6_Link == <<254, 128, 0, 0, 0, 0, 0, 0, 0, 0, 0, 0, 0, 0, 0, 1>>

\* PeerUpdate values: keys, socket addresses of both families, route lists.
CodecKeys == Keys \cup {KeyDefault}

CodecAddrs ==
    {Ep_1, Ep_2, Ep_3,
     SocketAddrV6(Ip6_Global, 51820, 0, 0),
     SocketAddrV6(Ip6_Link, 250, 0, 3),
     SocketAddrV6(Ip6_Global, 443, 7, 0)}

CodecRoutes ==
    {<< >>,
     <<[ip |-> <<10, 0, 0, 0>>, mask |-> 24]>>,
     <<[ip |-> <<0, 0, 0, 0>>, mask |-> 0], [ip |-> Ip6_Global, mask |-> 64]>>,
     <<[ip |-> <<192, 168, 1, 1>>, mask |-> 32],
       [ip |-> <<172, 16, 0, 0>>, mask |-> 255],
       [ip |-> Ip6_Link, mask |-> 128]>>}

CodecUpdates ==
    {PeerUpdate(k, a, r) : k \in CodecKeys, a \in CodecAddrs, r \in CodecRoutes}

\* Self::encode_msg(&peer)
EncodeUpdate ==
    /\ fn = ""
    /\ \E u \in CodecUpdates :
         /\ arg' = u
         /\ ret' = encode_msg(u)
    /\ fn' = "encode_msg"
    /\ UNCHANGED <<solo, pair>>

\* Self::decode_msg(&msg) on what encode_msg returned
DecodeMessage ==
    /\ fn = "encode_msg"
    /\ arg' = [update |-> arg, msg |-> ret]
    /\ ret' = decode_msg(ret)
    /\ fn' = "decode_msg"
    /\ UNCHANGED <<solo, pair>>

\* Sections a configuration file is made of, by name: their text.
InterfaceBlocks ==
    {"I_Plain", "I_Port", "I_Fwmark", "I_Unknown", "I_All", "I_NoEq"}

PeerBlocks == {"P_B", "P_C", "P_Dom", "P_NoEq"}

BlockText(b) ==
    CASE b = "I_Plain" ->
           Chars("[Interface]\nPrivateKey = b32KlqGrtLzK1+Pu+AEJFyQwO0VOVmRxfYiSm6Oxvso=\nAddress = 10.0.0.1/24\n")
      [] b = "I_Port" ->
           Chars("[Interface]\nPrivateKey = b32KlqGrtLzK1+Pu+AEJFyQwO0VOVmRxfYiSm6Oxvso=\nListenPort = 51822\n\n")
      [] b = "I_Fwmark" ->
           Chars("[Interface]\nPrivateKey = b32KlqGrtLzK1+Pu+AEJFyQwO0VOVmRxfYiSm6Oxvso=\nFwmark = 51\n")
      [] b = "I_Unknown" ->
           Chars("[Interface]\nPrivateKey = b32KlqGrtLzK1+Pu+AEJFyQwO0VOVmRxfYiSm6Oxvso=\nSaveConfig = true\n")
      [] b = "I_All" ->
           Chars("[Interface]\nMTU = 1420\nDNS = 1.1.1.1,8.8.8.8\nTable = 1234\nPostUp = ip rule add\nPostDown = ip rule del\nPreUp = echo up\nPreDown = echo down\nPrivateKey = b32KlqGrtLzK1+Pu+AEJFyQwO0VOVmRxfYiSm6Oxvso=\n")
      [] b = "I_NoEq" ->
           Chars("[Interface]\nPrivateKey = b32KlqGrtLzK1+Pu+AEJFyQwO0VOVmRxfYiSm6Oxvso=\nbogus\nListenPort = 51822\n")
      [] b = "P_B" ->
           Chars("[Peer]\nPublicKey = JTE/SFNgaHJ+jJWgrbW/y9ni7foCDBgmLzpHT1llc3w=\nAllowedIPs = 10.0.0.2/32\n")
      [] b = "P_C" ->
           Chars("[Peer] # C\nPublicKey = ucnV3ej2AAYWIio1Q01TY293gpCaoLC8xM/d5+39CRE=\nEndpoint = 203.0.113.7:40000\nPersistentKeepalive = 25\n\n")
      [] b = "P_Dom" ->
           Chars("[Peer]\nPublicKey = JTE/SFNgaHJ+jJWgrbW/y9ni7foCDBgmLzpHT1llc3w=\nEndpoint = example.com:51821\n")
      [] b = "P_NoEq" ->
           Chars("[Peer]\nPublicKey = ucnV3ej2AAYWIio1Q01TY293gpCaoLC8xM/d5+39CRE=\nbogus\n")

\* Peer sections a file holds at most.
MaxPeers == 2

\* The sequence ps with b put after its first i elements.
InsertAt(ps, i, b) == SubSeq(ps, 1, i) \o <<b>> \o SubSeq(ps, i + 1, Len(ps))

\* Files: up to MaxPeers peer sections, and no interface section or one, at
\* any place among them.
ConfigInputs ==
    UNION {[1..n -> PeerBlocks]
             \cup {InsertAt(ps, i, b) :
                     ps \in [1..n -> PeerBlocks], i \in 0..n, b \in InterfaceBlocks} :
           n \in 0..MaxPeers}

RECURSIVE ConfigText(_)
ConfigText(blocks) ==
    IF blocks = << >> THEN << >>
    ELSE BlockText(blocks[1]) \o ConfigText(Tail(blocks))

\* WgConfig::parse_config(&mut reader)
ParseConfigText ==
    /\ fn = ""
    /\ \E c \in ConfigInputs :
         /\ arg' = c
         /\ ret' = parse_config(ConfigText(c))
    /\ fn' = "parse_config"
    /\ UNCHANGED <<solo, pair>>

\* Key texts: the standard base64 text of 0..MaxKeyBytes bytes, and texts
\* that are not base64.
MaxKeyBytes == 34

KeyBytes(n) == [i \in 1..n |-> (37 * i + 11) % 256]

KeyTexts ==
    {Base64Encode(STANDARD_ALPHABET, KeyBytes(n)) : n \in 0..MaxKeyBytes}
        \cup {Chars("not a key"), Chars("AAAA="), Chars("AAA")}

\* Key::from_str(s)
ParseKeyText ==
    /\ fn = ""
    /\ \E s \in KeyTexts :
         /\ arg' = s
         /\ ret' = ParseKey(s)
    /\ fn' = "Key::from_str"
    /\ UNCHANGED <<solo, pair>>

\* IrcSignaling::connect for a node whose own key is k, and for a node that
\* has k as its one configured peer: the nickname of the first, the registry
\* of the second.
HandleKeys == {Key_A, Key_B, Key_C, KeyDefault}

ConnectBothSides ==
    /\ fn = ""
    /\ \E k \in HandleKeys : \E other \in HandleKeys \ {k} :
         /\ arg' = k
         /\ ret' = [nickname |-> connect(Channel, k, <<other>>).nickname,
                    registry |-> connect(Channel, other, <<k>>).registry]
    /\ fn' = "connect"
    /\ UNCHANGED <<solo, pair>>

\* The loop of main() run over a whole inbound sequence, every collaborator
\* call succeeding: the events yielded, the calls made and the interface.
LoopStart == [events |-> << >>, calls |-> << >>, wg |-> WgInitial]

\* What one arm of the match adds.
LoopArm(sig, upd, st, ev) ==
    CASE ev.kind = "Request" ->
           [events |-> Append(st.events, ev),
            calls |-> st.calls \o
               <<CallSetPeerEndpoint(ev.peer.key,
                                     EndpointFromSocketAddr(ev.peer.endpoint), TRUE),
                 CallSendPrivmsg(announce(sig, upd, Some(ev.nick)), TRUE)>>,
            wg |-> set_peer_endpoint(st.wg, ev.peer.key,
                                     EndpointFromSocketAddr(ev.peer.endpoint), TRUE)]
      [] ev.kind = "Response" ->
           [events |-> Append(st.events, ev),
            calls |-> Append(st.calls,
               CallSetPeerEndpoint(ev.peer.key,
                                   EndpointFromSocketAddr(ev.peer.endpoint), TRUE)),
            wg |-> set_peer_endpoint(st.wg, ev.peer.key,
                                     EndpointFromSocketAddr(ev.peer.endpoint), TRUE)]
      [] OTHER -> [st EXCEPT !.events = Append(st.events, ev)]

\* while let Some(res) = stream.next().await { match res { .. } }
LoopStep(sig, upd, st, out) ==
    IF out = None THEN st ELSE LoopArm(sig, upd, st, out[1])

RECURSIVE RunLoop(_, _, _, _)
RunLoop(sig, upd, st, items) ==
    IF items = << >> THEN st
    ELSE RunLoop(sig, upd, LoopStep(sig, upd, st, Classify(sig, Head(items))),
                 Tail(items))

\* Peer-key sets a configuration may list.
PeerKeyLists == {<< >>, <<Key_B>>, <<Key_C>>, <<Key_B, Key_C>>, <<KeyDefault>>}

\* Inbound items of such a run: a Request whose key is not that of its
\* sender, a Request and a Response of a sender's own key, a body that does
\* not decode, a message without sender and a transport error.
LoopItems ==
    {Message(PrefixNickname(Nick_B), "PRIVMSG", Channel,
             encode_msg(PeerUpdate(Key_C, Ep_2, << >>))),
     Message(PrefixNickname(Nick_B), "PRIVMSG", Channel,
             encode_msg(PeerUpdate(Key_B, Ep_3, << >>))),
     Message(PrefixNickname(Nick_C), "PRIVMSG", OwnNickname(Key_A),
             encode_msg(PeerUpdate(Key_C, Ep_3, << >>))),
     Message(PrefixNickname(Nick_C), "PRIVMSG", Channel, NotBase64),
     Message(None, "PRIVMSG", Channel,
             encode_msg(PeerUpdate(Key_B, Ep_2, << >>))),
     StreamError}

RECURSIVE LoopInputs(_)
LoopInputs(n) ==
    IF n = 0 THEN {<< >>}
    ELSE LoopInputs(n - 1)
           \cup {Append(s, i) : s \in {t \in LoopInputs(n - 1) : Len(t) = n - 1},
                                i \in LoopItems}

\* main() of a node with key Key_A, the given configured peers and the
\* given inbound sequence, from subscribe() on.
RunMainLoop ==
    /\ fn = ""
    /\ \E ks \in PeerKeyLists : \E items \in LoopInputs(MaxItems) :
         /\ arg' = [peers |-> ks, items |-> items]
         /\ ret' = RunLoop(connect(Channel, Key_A, ks),
                           PeerUpdate(Key_A, Ep_1, << >>), LoopStart, items)
    /\ fn' = "main"
    /\ UNCHANGED <<solo, pair>>

\* Cidr texts: an address, and a mask after a '/' or none.
CidrAddrs == {Chars("10.0.0.0"), Chars("192.168.1.7"), Chars(" 10.1.0.0 "),
              Chars("10.0.0"), Chars("")}

CidrMasks == {Chars("0"), Chars("8"), Chars("24"), Chars(" 32"), Chars("33"),
              Chars("128"), Chars("255"), Chars("256"), Chars("300"),
              Chars("65536"), Chars("4294967296"), Chars("-1"), Chars("x"),
              Chars("")}

CidrTexts ==
    CidrAddrs \cup {a \o <<"/">> \o m : a \in CidrAddrs, m \in CidrMasks}

\* Cidr::from_str(s)
ParseCidrText ==
    /\ fn = ""
    /\ \E s \in CidrTexts :
         /\ arg' = s
         /\ ret' = ParseCidr(s)
    /\ fn' = "Cidr::from_str"
    /\ UNCHANGED <<solo, pair>>

\* One pass of the loop of parse_config over a non-empty input: Ok with
\* what is left of the input, or the error that ends the parse.
TopIteration(input) ==
    IF StartsWith(input, Chars("[Interface]")) THEN WgConfigInterface_parse(input)
    ELSE IF StartsWith(input, Chars("[Peer]")) THEN WgConfigPeer_parse(input)
    ELSE until("Stub", "\n", input)

\* One pass of the loop of a section parser: the property name up to '=',
\* then its value up to the end of the line.
SectionIterationValue(sect, kind) ==
    IF ~kind.ok THEN kind
    ELSE until(IF sect = "Interface" THEN InterfaceValueType(kind.val)
               ELSE PeerValueType(kind.val), "\n", kind.rest)

SectionIteration(sect, input) ==
    IF input = << >> \/ StartsWith(TrimStart(input), Chars("[Peer]"))
    THEN None
    ELSE Some(SectionIterationValue(sect, until("WgPropKind", "=", input)))

\* Texts the loops may stand at: every non-empty end of a configuration
\* with blank lines, comments and no final newline, of one whose lines lack
\* '=', and of one made of separators and headers.
LoopTexts ==
    {Conf_Port, ConfigText(<<"P_NoEq", "I_NoEq">>),
     Chars("=\n\n [Peer]\n[Interface]x=\n\n=[Peer]\n[Peer]")}

LoopInputTexts ==
    UNION {{Drop(t, n) : n \in 0..(Len(t) - 1)} : t \in LoopTexts}

\* One pass of each loop of the parser over the input s.
ParseLoopPass ==
    /\ fn = ""
    /\ \E s \in LoopInputTexts :
         /\ arg' = s
         /\ ret' = [top |-> TopIteration(s),
                    interface |-> SectionIteration("Interface", s),
                    peer |-> SectionIteration("Peer", s)]
    /\ fn' = "parse_config: loop"
    /\ UNCHANGED <<solo, pair>>

CallNext ==
    \/ ParseConfigText
    \/ ParseLoopPass
    \/ ParseKeyText
    \/ ParseCidrText
    \/ ConnectBothSides
    \/ RunMainLoop
    \/ EncodeUpdate
    \/ DecodeMessage

CallSpec == Init /\ [][CallNext]_vars

(***************************************************************************)
(* Properties of the orchestrator and the subscription.                    *)
(***************************************************************************)
Last(s) == s[Len(s)]

\* The collaborator calls made since the last inbound item was taken.
CallsSince == SubSeq(calls, mark + 1, Len(calls))

IsDirected(c) == c.op = "send_privmsg" /\ c.target # Channel

IsBroadcast(c) == c.op = "send_privmsg" /\ c.target = Channel

CarriesOwnUpdate(c) ==
    /\ c.op = "send_privmsg"
    /\ decode_msg(c.msg).ok
    /\ decode_msg(c.msg).val = PeerUpdate(key[1], discovered[1][1], << >>)

SetCall(u, ok) ==
    CallSetPeerEndpoint(u.key, EndpointFromSocketAddr(u.endpoint), ok)

Requests == {i \in 1..Len(events) : events[i].kind = "Request"}

DirectedSends == {i \in 1..Len(calls) : IsDirected(calls[i])}

Broadcasts == {i \in 1..Len(calls) : IsBroadcast(calls[i])}

PortCalls == {i \in 1..Len(calls) : calls[i].op = "set_listen_port"}

\* The loop finished with the last item it took.
Settled == pc \in {"listening", "exit"}

\* main() got past the bootstrap.
BootDone ==
    \/ pc \in {"subscribe", "listening", "match", "reply", "exit"}
    \/ pc = "aborted" /\ failed \in {"subscribe", "match", "reply"}

\* An inbound PRIVMSG with a nickname prefix.
FromNickname(item) ==
    /\ item.ok
    /\ item.command = "PRIVMSG"
    /\ item.prefix # None
    /\ item.prefix[1].kind = "Nickname"

\* The last item taken is a PRIVMSG from a nickname that carries update u.
LastCarries(u) ==
    /\ lastRaw # None
    /\ FromNickname(lastRaw[1])
    /\ lastRaw[1].msg = encode_msg(u)

\* A message carrying an update was delivered as the event its target asks for.
GoodItemDelivered ==
    \A u \in Updates :
        LastCarries(u) =>
            /\ lastRaw[1].target = Channel =>
                  /\ lastOut = Some(Request(lastRaw[1].prefix[1].name, u))
                  /\ Last(events) = Request(lastRaw[1].prefix[1].name, u)
            /\ lastRaw[1].target = signaling[1].nickname =>
                  /\ lastOut = Some(Response(u))
                  /\ Last(events) = Response(u)

\* C1: for a Request the loop first calls set_peer_endpoint with the key and
\* endpoint of the update, and then sends exactly one directed announce, to
\* the nickname the message came from, carrying this node's own update.
C1_RequestReply ==
    /\ pc = "reply" =>
          /\ lastOut # None /\ lastOut[1].kind = "Request"
          /\ CallsSince = <<SetCall(lastOut[1].peer, TRUE)>>
    /\ (Settled /\ lastOut # None /\ lastOut[1].kind = "Request") =>
          /\ Len(CallsSince) = 2
          /\ CallsSince[1] = SetCall(lastOut[1].peer, TRUE)
          /\ CallsSince[2].op = "send_privmsg"
          /\ CallsSince[2].target = lastRaw[1].prefix[1].name
          /\ CallsSince[2].ok
          /\ CarriesOwnUpdate(CallsSince[2])
    /\ Settled => Cardinality(DirectedSends) = Cardinality(Requests)

C1_Witness ==
    /\ pc = "listening"
    /\ lastOut # None /\ lastOut[1].kind = "Request"
    /\ lastRaw[1].prefix[1].name = Nick_C
    /\ Len(calls) = mark + 2
    /\ Last(calls).op = "send_privmsg" /\ Last(calls).target = Nick_C

\* C2: a PRIVMSG from a nickname whose body decodes to an update yields
\* Request(sender, update) when its target is the channel and
\* Response(update) when its target is this node's nickname.
C2_Classification == GoodItemDelivered /\ (lastRaw = None <=> consumed = 0)

C2_Witness ==
    /\ Len(events) = 2
    /\ events[1].kind = "Request"
    /\ events[1].nick = Nick_B
    /\ lastRaw[1].ok /\ lastRaw[1].target = signaling[1].nickname
    /\ lastOut = Some(Response(PeerUpdate(Key_C, Ep_2, << >>)))

\* C3: when the parsed configuration has no listen port and Discovery
\* returned (ext, p), the run makes exactly one set_listen_port(iface, p),
\* before exactly one broadcast announce, which carries ext, the own key and
\* no routes.
C3_ListenPortPush ==
    (config # None /\ config[1].interface.listen_port = None
        /\ discovered # None) =>
            /\ Cardinality(PortCalls) <= 1
            /\ Cardinality(Broadcasts) <= 1
            /\ \A i \in PortCalls :
                 calls[i].iface = Iface /\ calls[i].port = discovered[1][2]
            /\ \A j \in Broadcasts :
                 /\ \E i \in PortCalls : i < j /\ calls[i].ok
                 /\ CarriesOwnUpdate(calls[j])
            /\ BootDone =>
                 /\ Cardinality(PortCalls) = 1
                 /\ Cardinality(Broadcasts) = 1
                 /\ wg.listen_port = Some(discovered[1][2])

C3_Witness ==
    /\ pc = "listening"
    /\ config[1].interface.listen_port = None
    /\ discovered = Some(<<Ep_2, 51820>>)
    /\ Len(calls) = 2
    /\ calls[1] = CallSetListenPort(51820, TRUE)
    /\ IsBroadcast(calls[2])

\* C4: for a Response the loop calls set_peer_endpoint with the key and
\* endpoint of the update and sends no announce.
C4_ResponseNoReply ==
    (lastOut # None /\ lastOut[1].kind = "Response") =>
        /\ \A i \in (mark + 1)..Len(calls) : calls[i].op # "send_privmsg"
        /\ pc = "match" => CallsSince = << >>
        /\ Settled => CallsSince = <<SetCall(lastOut[1].peer, TRUE)>>
        /\ pc = "aborted" => CallsSince = <<SetCall(lastOut[1].peer, FALSE)>>
        /\ pc \in {"match", "listening", "exit", "aborted"}

C4_Witness ==
    /\ pc = "listening"
    /\ lastOut # None /\ lastOut[1].kind = "Response"
    /\ CallsSince = <<SetCall(PeerUpdate(Key_B, Ep_3, << >>), TRUE)>>

\* C5: a PRIVMSG from a nickname whose body decodes to an update and whose
\* target is neither the channel nor this node's nickname produces no event.
C5_OtherTargetDropped ==
    \A u \in Updates :
        (LastCarries(u)
            /\ lastRaw[1].target \notin {Channel, signaling[1].nickname}) =>
                lastOut = None

\* An item the subscription is to filter out: not a PRIVMSG, no nickname
\* prefix, or a body that is no base64 or no encoded update.
Droppable(item) ==
    /\ item.ok
    /\ \/ ~FromNickname(item)
       \/ item.msg \in {NotBase64, CutOff}

\* C6: an item that is not a PRIVMSG, has no nickname prefix, or whose body
\* fails either decoding step yields neither an event nor an error, and the
\* items after it are still classified and delivered.
C6_DroppedItems ==
    /\ consumed = Len(events) + dropped
    /\ (lastRaw # None /\ Droppable(lastRaw[1])) =>
          /\ lastOut = None
          /\ Len(calls) = mark
          /\ Settled
          /\ failed = ""
    /\ dropped > 0 => GoodItemDelivered

C6_Witness ==
    /\ dropped = 1
    /\ consumed = 2
    /\ pc = "listening"
    /\ lastOut # None /\ lastOut[1].kind = "Request"
    /\ Len(calls) = mark + 2

HasError == \E i \in 1..Len(events) : events[i].kind = "Error"

\* C7: an error item of the transport is delivered as an Error item, causes
\* no call to the control collaborator and no announce, and does not end the
\* loop: the items after it are still classified and handled.
C7_StreamError ==
    /\ (lastRaw # None /\ ~lastRaw[1].ok) =>
          /\ lastOut = Some(ErrorItem(lastRaw[1].err))
          /\ Last(events) = ErrorItem(lastRaw[1].err)
          /\ Len(calls) = mark
          /\ wg = wgAtTake
          /\ pc \in {"match", "listening", "exit"}
          /\ failed = ""
    /\ HasError => GoodItemDelivered
    /\ (HasError /\ Settled /\ lastOut # None /\ lastOut[1].kind # "Error") =>
          /\ Len(calls) > mark
          /\ calls[mark + 1] = SetCall(lastOut[1].peer, TRUE)

C7_Witness ==
    /\ Len(events) = 2
    /\ events[1].kind = "Error"
    /\ events[2].kind = "Request"
    /\ pc = "listening"
    /\ Len(calls) = mark + 2

\* C8: when set_peer_endpoint fails for a Request or a Response, or an
\* announce fails, the loop stops there: the failed call is the last call,
\* a Request whose endpoint update failed gets no reply, and no inbound item
\* is taken afterwards.
C8_LoopAborts ==
    /\ \A i \in 1..Len(calls) :
         ~calls[i].ok => (i = Len(calls) /\ pc = "aborted" /\ mark < i)
    /\ failed \in {"match", "reply"} =>
         /\ pc = "aborted"
         /\ ~Last(calls).ok
    /\ failed = "match" =>
         CallsSince = <<SetCall(lastOut[1].peer, FALSE)>>
    /\ failed = "reply" =>
         /\ CallsSince[1] = SetCall(lastOut[1].peer, TRUE)
         /\ Len(CallsSince) = 2
         /\ IsDirected(CallsSince[2])

C8_Witness ==
    /\ pc = "aborted"
    /\ failed = "match"
    /\ lastOut # None /\ lastOut[1].kind = "Request"
    /\ consumed < MaxItems
    /\ Cardinality(DirectedSends) = 0

BootFailure ==
    \/ failed \in {"load_wg_config", "get_pub_key", "connect", "discover",
                   "set_listen_port"}
    \/ \E i \in PortCalls : ~calls[i].ok

\* C9: when loading the configuration, reading the own public key, the
\* connect, Discovery or the listen port push fails, the run aborts before
\* it listens: no broadcast is sent, the subscription is not opened and no
\* inbound item is processed.
C9_BootstrapAborts ==
    BootFailure =>
        /\ pc = "aborted"
        /\ ~subscribed
        /\ \A i \in 1..Len(calls) : calls[i].op # "send_privmsg"
        /\ consumed = 0
        /\ events = << >>
        /\ lastRaw = None

C9_Witness ==
    /\ pc = "aborted"
    /\ failed = "set_listen_port"
    /\ calls = <<CallSetListenPort(51039, FALSE)>>
    /\ wg = WgInitial

\* The last two events are the same Request, and the loop finished with both.
SameRequestTwice ==
    /\ Len(events) >= 2
    /\ Last(events).kind = "Request"
    /\ events[Len(events) - 1] = Last(events)
    /\ lastOut = Some(Last(events))
    /\ Settled

\* C10: handling the same Request twice sends one directed reply per
\* delivery, two in all, and leaves the key to endpoint state of the
\* interface after the second as it was after the first.
C10_RequestTwice ==
    SameRequestTwice =>
        /\ wg = wgAtTake
        /\ wg.endpoints[Last(events).peer.key]
             = Some(EndpointFromSocketAddr(Last(events).peer.endpoint))
        /\ mark >= 2
        /\ Len(CallsSince) = 2
        /\ CallsSince = SubSeq(calls, mark - 1, mark)
        /\ IsDirected(CallsSince[2])
        /\ CallsSince[2].target = Last(events).nick

C10_Witness ==
    /\ SameRequestTwice
    /\ Cardinality(DirectedSends) = 2
    /\ dropped = 0
    /\ wg.endpoints[Key_B] = Some(EndpointFromSocketAddr(Ep_3))

\* The calls the loop makes for an item of the given kind.
CallsFor(kind) ==
    CASE kind = "Request" -> 2
      [] kind = "Response" -> 1
      [] OTHER -> 0

\* C11: inbound items are handled one at a time: when an item is read the
\* endpoint update and the reply of the item before it are done, and while
\* an item is handled exactly its own calls are added.
C11_OneAtATime ==
    /\ consumed = Len(events) + dropped
    /\ pc = "match" => (res = lastOut /\ Len(calls) = mark)
    /\ pc = "reply" =>
          /\ res = lastOut
          /\ res[1].kind = "Request"
          /\ Len(calls) = mark + 1
    /\ (Settled /\ lastOut # None) =>
          Len(calls) = mark + CallsFor(lastOut[1].kind)
    /\ (Settled /\ lastOut = None /\ consumed > 0) => Len(calls) = mark
    /\ (pc = "aborted" /\ failed \in {"match", "reply"}) =>
          /\ lastOut # None
          /\ Len(calls) > mark
          /\ Len(calls) <= mark + CallsFor(lastOut[1].kind)

C11_Witness ==
    /\ pc = "reply"
    /\ Len(events) = 2
    /\ events[1].kind = "Request"
    /\ IsDirected(calls[mark])
    /\ Len(calls) = mark + 1

\* Node n holds, for the key of the other node, the endpoint that node
\* announces.
Applied(n) ==
    /\ NodeKey(Other(n)) \in DOMAIN nodes[n].wg.endpoints
    /\ nodes[n].wg.endpoints[NodeKey(Other(n))]
         = Some(EndpointFromSocketAddr(nodes[Other(n)].endpoint))

\* C12: two nodes that both bootstrap on the channel, with reliable in-order
\* delivery and no failing collaborator, end up each holding the other's
\* announced endpoint under the other's key, whoever joined and broadcast
\* first.
C12_Converge == <>[](Applied("A") /\ Applied("B"))

\* Both nodes listen, nothing is in flight, and each holds the other's
\* endpoint.
C12_Witness ==
    /\ Applied("A") /\ Applied("B")
    /\ nodes["A"].pc = "listening" /\ nodes["B"].pc = "listening"
    /\ inbox["A"] = << >> /\ inbox["B"] = << >>
    /\ nodes["A"].endpoint = Ep_3

\* C13: for every PeerUpdate (any key, any socket address, any route list)
\* decode_msg(encode_msg(update)) succeeds and returns the update.
C13_RoundTrip ==
    fn = "decode_msg" => (ret.ok /\ ret.val = arg.update)

\* The same for the updates whose address carries no flow information and
\* no scope id: these do come back as they were.
C13_RoundTripPlain ==
    (fn = "decode_msg"
        /\ (arg.update.endpoint.v = 6 =>
               (arg.update.endpoint.flowinfo = 0
                  /\ arg.update.endpoint.scope_id = 0))) =>
            (ret.ok /\ ret.val = arg.update)

\* What each well-formed section says, field by field.
BlockValue(b) ==
    CASE b = "I_Plain" ->
           [WgConfigInterfaceDefault EXCEPT
              !.private_key = Key_A,
              !.address = [ip |-> <<10, 0, 0, 1>>, mask |-> 24]]
      [] b = "I_Port" ->
           [WgConfigInterfaceDefault EXCEPT
              !.private_key = Key_A, !.listen_port = Some(51822)]
      [] b = "I_Fwmark" ->
           [WgConfigInterfaceDefault EXCEPT
              !.private_key = Key_A, !.fwmark = Some(51)]
      [] b = "I_Unknown" ->
           [WgConfigInterfaceDefault EXCEPT !.private_key = Key_A]
      [] b = "I_All" ->
           [WgConfigInterfaceDefault EXCEPT
              !.private_key = Key_A,
              !.mtu = Some(1420),
              !.dns = Some(<<<<1, 1, 1, 1>>, <<8, 8, 8, 8>>>>),
              !.table = Some(1234),
              !.post_up = Some(Chars("ip rule add")),
              !.post_down = Some(Chars("ip rule del")),
              !.pre_up = Some(Chars("echo up")),
              !.pre_down = Some(Chars("echo down"))]
      [] b = "P_B" ->
           [WgConfigPeerDefault EXCEPT
              !.public_key = Key_B,
              !.allowed_ips = Some(<<[ip |-> <<10, 0, 0, 2>>, mask |-> 32]>>)]
      [] b = "P_C" ->
           [WgConfigPeerDefault EXCEPT
              !.public_key = Key_C,
              !.endpoint = Some(EndpointFromSocketAddr(Ep_2)),
              !.persistent_keepalive = Some(25)]
      [] b = "P_Dom" ->
           [WgConfigPeerDefault EXCEPT
              !.public_key = Key_B,
              !.endpoint = Some(EndpointFromString(Chars("example.com:51821")))]

\* The sections whose every line has a '='.
WellFormed(blocks) ==
    \A i \in 1..Len(blocks) : blocks[i] \notin {"I_NoEq", "P_NoEq"}

InterfaceAt(blocks) == {i \in 1..Len(blocks) : blocks[i] \in InterfaceBlocks}

\* The peer sections of the file, in the order of the text.
PeersOf(blocks) == SelectSeq(blocks, LAMBDA b : b \in PeerBlocks)

\* The parse succeeded and its peers are those of the file, in its order.
PeersAsWritten ==
    /\ ret.ok
    /\ Len(ret.val.peers) = Len(PeersOf(arg))
    /\ \A i \in 1..Len(ret.val.peers) :
         ret.val.peers[i] = BlockValue(PeersOf(arg)[i])

\* C14: a well-formed file in which one or more [Peer] sections come before
\* the single [Interface] section parses, and yields that interface and all
\* those peers.
C14_AnyOrder ==
    (fn = "parse_config" /\ WellFormed(arg)
        /\ Cardinality(InterfaceAt(arg)) = 1
        /\ 1 \notin InterfaceAt(arg)) =>
            /\ PeersAsWritten
            /\ ret.val.interface.private_key = Key_A

\* C15: a line without '=' inside a section makes the parse fail.
C15_NoSeparatorFails ==
    (fn = "parse_config" /\ ~WellFormed(arg)) => ~ret.ok

\* C17: one [Interface] section followed by N [Peer] sections parses to
\* exactly N peers, in the order of the text, each with the values of its
\* own section.
C17_PeersInOrder ==
    (fn = "parse_config" /\ WellFormed(arg) /\ InterfaceAt(arg) = {1}) =>
        PeersAsWritten

C17_Witness ==
    /\ fn = "parse_config"
    /\ arg = <<"I_Port", "P_C", "P_B">>
    /\ ret.ok
    /\ Len(ret.val.peers) = 2
    /\ ret.val.peers[1].public_key = Key_C
    /\ ret.val.peers[2].public_key = Key_B

\* C18: parse_config does not succeed on a text without an [Interface]
\* section; when the text is otherwise well-formed the error is the one for
\* the missing interface section.
C18_NoInterface ==
    (fn = "parse_config" /\ InterfaceAt(arg) = {}) =>
        /\ ~ret.ok
        /\ WellFormed(arg) => ret = Err("NoIntrerfaceSection")

C18_Witness ==
    /\ fn = "parse_config"
    /\ arg = <<"P_B", "P_C">>
    /\ ret = Err("NoIntrerfaceSection")

\* C19: an interface section stores the value of each recognized key in the
\* field of that key and changes no other field, and an unrecognized key
\* changes nothing: a Fwmark line sets fwmark and leaves listen_port.
C19_OwnField ==
    (fn = "parse_config" /\ Len(arg) = 1 /\ WellFormed(arg)
        /\ arg[1] \in InterfaceBlocks) =>
            /\ ret.ok
            /\ ret.val.interface = BlockValue(arg[1])

\* The same for the sections without a Fwmark line.
C19_OwnFieldButFwmark ==
    (fn = "parse_config" /\ Len(arg) = 1 /\ WellFormed(arg)
        /\ arg[1] \in InterfaceBlocks \ {"I_Fwmark"}) =>
            /\ ret.ok
            /\ ret.val.interface = BlockValue(arg[1])

\* The bytes a key text stands for, when it is base64.
DecodedKeyText == Base64Decode(STANDARD_ALPHABET, arg)

\* C16: parsing a key value succeeds only when the base64 text decodes to
\* exactly 32 bytes; text that decodes to fewer or to more fails with the
\* key-parse error.
C16_ExactLength ==
    fn = "Key::from_str" =>
        IF DecodedKeyText.ok /\ Len(DecodedKeyText.val) = KEY_LENGTH
        THEN ret.ok
        ELSE ret = Err("KeyParseError")

\* The same without the texts that decode to fewer than 32 bytes.
C16_NotLonger ==
    (fn = "Key::from_str"
        /\ ~(DecodedKeyText.ok /\ Len(DecodedKeyText.val) < KEY_LENGTH)) =>
            IF DecodedKeyText.ok /\ Len(DecodedKeyText.val) = KEY_LENGTH
            THEN ret = Ok(DecodedKeyText.val)
            ELSE ret = Err("KeyParseError")

\* C20: the handle a node with key K takes for itself is the handle under
\* which a node that has K as a configured peer registers K.
C20_SameHandle ==
    fn = "connect" =>
        /\ ret.nickname \in DOMAIN ret.registry
        /\ ret.registry[ret.nickname] = arg

\* The same for the keys whose user name has no '-' and no '_' among its
\* first NICKNAME_LENGTH characters.
C20_SameHandlePlain ==
    (fn = "connect"
        /\ \A i \in 1..NICKNAME_LENGTH : username(arg)[i] \notin {"-", "_"}) =>
            /\ ret.nickname \in DOMAIN ret.registry
            /\ ret.registry[ret.nickname] = arg

\* C21: for every key, deriving the node's handle succeeds and gives exactly
\* 12 characters of the text-safe alphabet, and deriving it again from the
\* same key gives the same handle.
C21_HandleShape ==
    fn = "connect" =>
        /\ Len(ret.nickname) = NICKNAME_LENGTH
        /\ \A i \in 1..Len(ret.nickname) :
             IsSymbol(URL_SAFE_ALPHABET, ret.nickname[i])
        /\ \A other \in HandleKeys :
             connect(Channel, arg, <<other>>).nickname = ret.nickname

\* The handle of a key whose user name has a '-' among its first characters.
C21_Witness ==
    /\ fn = "connect"
    /\ arg = Key_B
    /\ ret.nickname = Chars("gWrUnu9xzYjl")

\* C22: classification and dispatch do not consult the registry: over the
\* same inbound sequence, runs that differ only in the configured peer-key
\* set yield the same events, make the same set_peer_endpoint calls and send
\* the same replies, also for a payload key that is no configured peer or
\* is not the key of the sender's handle.
C22_RegistryUnused ==
    fn = "main" =>
        \A ks \in PeerKeyLists :
            ret = RunLoop([connect(Channel, Key_A, arg.peers)
                             EXCEPT !.registry = Registry(ks)],
                          PeerUpdate(Key_A, Ep_1, << >>), LoopStart, arg.items)

\* With Key_B the only configured peer, a Request from the handle of Key_B
\* that carries Key_C is applied and answered.
C22_Witness ==
    /\ fn = "main"
    /\ arg.peers = <<Key_B>>
    /\ Len(arg.items) = 2
    /\ Len(ret.events) = 2
    /\ ret.events[2] = Request(Nick_B, PeerUpdate(Key_C, Ep_2, << >>))
    /\ Len(ret.calls) >= 2
    /\ ret.calls[Len(ret.calls)].op = "send_privmsg"
    /\ ret.calls[Len(ret.calls)].target = Nick_B
    /\ ret.wg.endpoints[Key_C] = Some(EndpointFromSocketAddr(Ep_2))

\* C23: parsing a Cidr fails or gives a mask within the range of the address
\* family, 0 to 32 for the IPv4 addresses of these texts: a mask out of the
\* range, such as /300, is not accepted as another value.
C23_MaskInRange ==
    (fn = "Cidr::from_str" /\ ret.ok) => ret.val.mask \in 0..32

\* The mask of an accepted text is the low byte of the number written.
C23_MaskLowByte ==
    (fn = "Cidr::from_str" /\ ret.ok /\ Position(arg, "/") # None) =>
        \E n \in 0..65536 :
            /\ Trim(Drop(arg, Position(arg, "/")[1] + 1)) \in {<< >>, ToDecimal(n)}
            /\ ret.val.mask = IF Trim(Drop(arg, Position(arg, "/")[1] + 1)) = << >>
                              THEN 32 ELSE n % 256

\* The announces of the history, and the first of them.
Sends == {i \in 1..Len(calls) : calls[i].op = "send_privmsg"}

FirstSend == calls[CHOOSE i \in Sends : \A j \in Sends : i <= j]

\* A step keeps the key and the discovery result once they are there, only
\* adds to the calls, and an announce it adds carries the own update: the
\* first announce is the encoded own update, a later one repeats the first.
AnnouncesSame ==
    /\ key # None => key' = key
    /\ discovered # None => (discovered' = discovered /\ pc' # "discover")
    /\ Len(calls') >= Len(calls)
    /\ SubSeq(calls', 1, Len(calls)) = calls
    /\ \A i \in (Len(calls) + 1)..Len(calls') :
         calls'[i].op = "send_privmsg" =>
            IF Sends = {}
            THEN calls'[i].msg = encode_msg(OwnUpdate)
            ELSE calls'[i].msg = FirstSend.msg

\* C24: every announce of a run, the initial broadcast and each directed
\* reply, carries the same update: the own key, the endpoint of the one
\* Discovery call of the startup and no routes; Discovery is not called
\* again.
C24_SameAnnounce == [][AnnouncesSame]_vars

\* The broadcast and two directed replies were sent.
C24_Witness ==
    /\ pc = "listening"
    /\ Cardinality(Broadcasts) = 1
    /\ Cardinality(DirectedSends) = 2
    /\ \A i \in DirectedSends : calls[i].msg = FirstSend.msg
    /\ FirstSend.target = Channel

\* The Requests and Responses the loop was given, and the last of them that
\* carries key k.
Processed == {i \in 1..Len(events) : events[i].kind \in {"Request", "Response"}}

LastFor(k) ==
    CHOOSE i \in Processed :
        /\ events[i].peer.key = k
        /\ \A j \in Processed : events[j].peer.key = k => j <= i

\* C25: when the loop is done with the events it was given and no
\* collaborator failed, the interface holds for a key the endpoint of the
\* last Request or Response that carried the key, and holds nothing for a
\* key that none of them carried.
C25_LatestEndpoint ==
    Settled =>
        /\ DOMAIN wg.endpoints = {events[i].peer.key : i \in Processed}
        /\ \A k \in DOMAIN wg.endpoints :
             wg.endpoints[k] =
                Some(EndpointFromSocketAddr(events[LastFor(k)].peer.endpoint))

\* A Request and then a Response carried the same key with two endpoints.
C25_Witness ==
    /\ pc = "listening"
    /\ Len(events) = 2
    /\ events[1] = Request(Nick_B, PeerUpdate(Key_B, Ep_2, << >>))
    /\ events[2] = Response(PeerUpdate(Key_B, Ep_3, << >>))
    /\ DOMAIN wg.endpoints = {Key_B}
    /\ wg.endpoints[Key_B] = Some(EndpointFromSocketAddr(Ep_3))

\* The broadcasts and the directed messages node n sent.
SentTo(n, channel) ==
    {i \in 1..Len(nodes[n].sent) : (nodes[n].sent[i] = Channel) = channel}

RECURSIVE SumOver(_, _)
SumOver(f, S) ==
    IF S = {} THEN 0
    ELSE LET x == CHOOSE y \in S : TRUE
         IN f[x] + SumOver(f, S \ {x})

\* No message is in flight and every node waits for the next.
Quiet == \A n \in Nodes : inbox[n] = << >> /\ nodes[n].pc = "listening"

\* A step of node n sends one message when it is the broadcast of the
\* bootstrap or the reply that ends a Request, to the sender of the Request,
\* and none otherwise; a Response ends without one.
SendsPerStep(n) ==
    /\ Len(nodes'[n].sent) =
         Len(nodes[n].sent)
           + (IF nodes'[n] # nodes[n] /\ nodes[n].pc \in {"announce", "reply"}
              THEN 1 ELSE 0)
    /\ SubSeq(nodes'[n].sent, 1, Len(nodes[n].sent)) = nodes[n].sent
    /\ (nodes'[n] # nodes[n] /\ nodes[n].pc = "reply") =>
          /\ nodes[n].res[1].kind = "Request"
          /\ Last(nodes'[n].sent) = nodes[n].res[1].nick
          /\ Last(nodes'[n].sent) # Channel
    /\ (nodes'[n] # nodes[n] /\ nodes[n].pc = "match"
          /\ nodes[n].res[1].kind = "Response") => nodes'[n].pc = "listening"
    /\ nodes'[n].pc = "reply" => nodes'[n].res[1].kind = "Request"

\* The messages sent so far: at most one broadcast a node, and at most
\* N * (N - 1) directed messages in all.
SendsBounded ==
    /\ \A n \in Nodes : Cardinality(SentTo(n, TRUE)) <= 1
    /\ SumOver([n \in Nodes |-> Cardinality(SentTo(n, FALSE))], Nodes)
         <= Cardinality(Nodes) * (Cardinality(Nodes) - 1)

\* C26: in a system of N nodes (here the two of the channel) a node sends
\* one message for each Request it handles and none for a Response, so a
\* reply brings no further reply: besides the N broadcasts at most
\* N * (N - 1) directed messages are ever sent, and the system comes to rest
\* with no message in flight.
C26_Quiesce ==
    /\ [][\A n \in Nodes : SendsPerStep(n)]_vars
    /\ []SendsBounded
    /\ <>[]Quiet

\* Both nodes were on the channel for both broadcasts: each sent its
\* broadcast and one reply, and nothing is in flight.
C26_Witness ==
    /\ Quiet
    /\ \A n \in Nodes :
         /\ Cardinality(SentTo(n, TRUE)) = 1
         /\ Cardinality(SentTo(n, FALSE)) = 1
         /\ nodes[n].sent[2] = NodeNickname(Other(n))

\* A pass that went through left less input than it found.
Consumed(r) == r.ok => Len(r.rest) < Len(arg)

\* C27: parse_config terminates on a finite text: every pass of its loop
\* and of the loops of the interface and peer sections takes at least one
\* character off the input that is left.
C27_Progress ==
    fn = "parse_config: loop" =>
        /\ Consumed(ret.top)
        /\ ret.interface # None => Consumed(ret.interface[1])
        /\ ret.peer # None => Consumed(ret.peer[1])

\* The loop of parse_config stands at the interface section of a file and
\* leaves the peer sections after it; a section loop standing there reads
\* the header as a property name.
C27_Witness ==
    /\ fn = "parse_config: loop"
    /\ arg = Conf_Port
    /\ ret.top.ok
    /\ StartsWith(TrimStart(ret.top.rest), Chars("[Peer]"))
    /\ ret.peer # None
    /\ ret.peer[1].ok
    /\ Len(ret.peer[1].rest) < Len(arg)

=============================================================================
